---- MODULE Spec2Model ----
(***************************************************************************)
(* pkglink: source resolution, caching and symlink reconciliation.         *)
(*                                                                         *)
(* Names and version strings are sequences of one-character strings, so    *)
(* that prefix tests and regular expressions are computed on characters.   *)
(*                                                                         *)
(* The module holds several specifications over the same variables:        *)
(*   SpecLink   the symlink reconciler (pkglink/symlinks.py)               *)
(*   SpecCache  the two install_with_uvx and their cache                   *)
(*   SpecResolve  resolve_source_path and its fallback installer           *)
(*   SpecMain   the pkglink CLI main (pkglink/main.py)                     *)
(*   SpecImm    the mutability classification (pure function)              *)
(*   SpecRoot   find_package_root on one install directory                 *)
(*   SpecConfig the conflict detector of build_contexts (pkglink/config.py)*)
(*   SpecBatch  the pkglink-batch CLI (pkglink/cli/pkglink_batch.py)       *)
(*   SpecDryRun the pkglink-batch CLI with dry_run options in the file     *)
(*   SpecParse  parse_source and build_uv_install_spec (pure functions)    *)
(*   SpecSource the constructor of SourceSpec (pkglink/models.py)          *)
(*   SpecTarget the constructor of LinkTarget and full_source_path         *)
(*   SpecPkglinkx the pkglinkx CLI main (pkglink/pkglinkx.py)              *)
(*   SpecRace   two processes inside install_with_uvx at the same time     *)
(*   SpecLocal  resolve_source_path(parse_source(s)) for local sources     *)
(***************************************************************************)
EXTENDS Integers, Sequences, FiniteSets, TLC

VARIABLES
    proj,   \* the project directory (cwd): entry name -> directory entry
    locs,   \* locations outside the project directory: location -> node
    cache,  \* ~/.cache/pkglink: cache key -> content of the cache directory
    tmp,    \* the pkglink_uv_* temporary directories left on disk, in order of creation
    gen,    \* revision that the remote currently serves for mutable references
    link,   \* record of the last direct call into pkglink/symlinks.py
    inst,   \* record of the last direct installer / resolver call; under
            \* SpecRace the call each process is in
    run,    \* record of the last run of the pkglink or pkglinkx CLI main
    cls,    \* record of the last call of a function of pkglink/pkglinkx.py,
            \* pkglink/parsing.py or pkglink/models.py on the input at hand
    look,   \* record of the last call of find_package_root
    batch   \* the run of pkglink-batch in progress

vars == <<proj, locs, cache, tmp, gen, link, inst, run, cls, look, batch>>

\* no call of find_package_root yet, no run of pkglink-batch yet
NoLook == [op |-> "none"]
NoBatch == [op |-> "none"]

----------------------------------------------------------------------------
(* Names *)

\* a managed name (.my) and a name without the dot prefix (imp)
TargetNames == {<<".", "m", "y">>, <<"i", "m", "p">>}

\* str.startswith('.')
StartsWithDot(name) == Len(name) > 0 /\ name[1] = "."

----------------------------------------------------------------------------
(* Filesystem nodes *)

Locations == {"a", "b"}

\* A place is what a path outside the project directory's own entries
\* denotes: a location ("loc"), an entry of the project directory ("cwd"), a
\* cache directory ("cache") or a pkglink_uv_* temporary directory ("tmp"),
\* or a path below one of them (sub, a sequence of names).
NoKey == <<>>
NoName == <<>>
NoPlace == [root |-> "none", id |-> "none", key |-> NoKey, name |-> NoName, n |-> 0, sub |-> <<>>]
Loc(l) == [root |-> "loc", id |-> l, key |-> NoKey, name |-> NoName, n |-> 0, sub |-> <<>>]

Absent == [kind |-> "absent", to |-> NoPlace, data |-> "none"]
File(d) == [kind |-> "file", to |-> NoPlace, data |-> d]
Dir(d) == [kind |-> "dir", to |-> NoPlace, data |-> d]
Symlink(p) == [kind |-> "symlink", to |-> p, data |-> "none"]

\* what a location may hold: nothing, a file or a directory of its own content
LocNodes(l) == {Absent, File(l), Dir(l)}

\* what may occupy a name of the project directory before pkglink runs
UserEntries ==
    {Absent, File("user"), Dir("user")} \cup {Symlink(Loc(l)) : l \in Locations}

\* the filesystem as the operations see it
World(pr, lc, ch, td) == [proj |-> pr, locs |-> lc, cache |-> ch, tmp |-> td]

\* the entry of the project directory called name: Path.cwd() / name
Cwd(name) == [root |-> "cwd", id |-> "none", key |-> NoKey, name |-> name, n |-> 0, sub |-> <<>>]

\* place / name
Sub(p, name) == [p EXCEPT !.sub = Append(@, name)]

Resources == <<"r", "e", "s", "o", "u", "r", "c", "e", "s">>

\* an entry of a directory listing: its name, whether it is a directory,
\* whether it holds __init__.py, whether it holds a resources directory
Entry(name, isdir, init, res) == [name |-> name, isdir |-> isdir, init |-> init, res |-> res]

DistInfoSuffix == <<".", "d", "i", "s", "t", "-", "i", "n", "f", "o">>
DistInfo(name) == name \o <<"-", "1", ".", "0">> \o DistInfoSuffix
Readme == <<"R", "E", "A", "D", "M", "E">>

\* the site-packages directory an installation leaves, by layout: the module
\* with its resources directory ("pkg"), the module without one ("bare"), no
\* directory at all ("empty")
Listing(c) ==
    CASE c.layout = "pkg" ->
            <<Entry(DistInfo(c.name), TRUE, FALSE, FALSE), Entry(c.name, TRUE, TRUE, TRUE)>>
      [] c.layout = "bare" ->
            <<Entry(DistInfo(c.name), TRUE, FALSE, FALSE), Entry(c.name, TRUE, TRUE, FALSE)>>
      [] c.layout = "empty" -> <<Entry(Readme, FALSE, FALSE, FALSE)>>
      [] OTHER -> <<>>

\* the path sub below a directory with this listing exists / is a directory
ListingHas(listing, sub) ==
    CASE Len(sub) = 0 -> TRUE
      [] Len(sub) = 1 -> \E i \in 1..Len(listing) : listing[i].name = sub[1]
      [] Len(sub) = 2 ->
            \E i \in 1..Len(listing) :
                /\ listing[i].name = sub[1]
                /\ listing[i].isdir
                /\ sub[2] = Resources
                /\ listing[i].res
      [] OTHER -> FALSE
ListingHasDir(listing, sub) ==
    CASE Len(sub) = 1 -> \E i \in 1..Len(listing) : listing[i].name = sub[1] /\ listing[i].isdir
      [] OTHER -> ListingHas(listing, sub)

\* a user directory holds a resources directory when its content is "src"
NodeHas(node, sub) ==
    CASE node.kind = "file" -> sub = <<>>
      [] node.kind = "dir" -> sub = <<>> \/ (node.data = "src" /\ sub = <<Resources>>)
      [] OTHER -> FALSE
NodeHasDir(node, sub) == node.kind = "dir" /\ NodeHas(node, sub)

\* longest chain of symlinks a path lookup follows
MaxHops == 3

\* the place a path denotes once the symlinks on it are followed
\* (Path.resolve()); NoPlace when the chain is too long
RECURSIVE Resolve(_, _, _)
Resolve(w, p, hops) ==
    IF p.root = "cwd" /\ p.name \in DOMAIN w.proj /\ w.proj[p.name].kind = "symlink"
    THEN IF hops = 0
         THEN NoPlace
         ELSE LET to == w.proj[p.name].to
              IN  Resolve(w, [to EXCEPT !.sub = @ \o p.sub], hops - 1)
    ELSE p

\* the content of the cache or temporary directory a place is in
PlaceContent(w, p) ==
    CASE p.root = "cache" /\ p.key \in DOMAIN w.cache -> w.cache[p.key]
      [] p.root = "tmp" /\ p.n \in 1..Len(w.tmp) -> w.tmp[p.n]
      [] OTHER -> [exists |-> FALSE, rev |-> 0, layout |-> "none", name |-> NoName]

\* Path.exists() of a place: follows symlinks
PlaceExists(w, p) ==
    LET q == Resolve(w, p, MaxHops)
    IN  CASE q.root = "loc" -> NodeHas(w.locs[q.id], q.sub)
          [] q.root = "cwd" -> q.name \in DOMAIN w.proj /\ NodeHas(w.proj[q.name], q.sub)
          [] q.root \in {"cache", "tmp"} ->
                PlaceContent(w, q).exists /\ ListingHas(Listing(PlaceContent(w, q)), q.sub)
          [] OTHER -> FALSE

\* Path.is_dir() of a place
PlaceIsDir(w, p) ==
    LET q == Resolve(w, p, MaxHops)
    IN  CASE q.root = "loc" -> NodeHasDir(w.locs[q.id], q.sub)
          [] q.root = "cwd" -> q.name \in DOMAIN w.proj /\ NodeHasDir(w.proj[q.name], q.sub)
          [] q.root \in {"cache", "tmp"} ->
                PlaceContent(w, q).exists /\ ListingHasDir(Listing(PlaceContent(w, q)), q.sub)
          [] OTHER -> FALSE

\* the content a copy of a place holds
PlaceData(w, p) ==
    LET q == Resolve(w, p, MaxHops)
    IN  CASE q.root = "loc" -> w.locs[q.id].data
          [] q.root = "cwd" /\ q.name \in DOMAIN w.proj -> w.proj[q.name].data
          [] q.root \in {"cache", "tmp"} -> "rev" \o ToString(PlaceContent(w, q).rev)
          [] OTHER -> "none"

\* Path.exists() of a project entry: follows symlinks, so a broken symlink
\* does not exist
EntryExists(w, t) ==
    CASE w.proj[t].kind = "absent" -> FALSE
      [] w.proj[t].kind = "symlink" -> PlaceExists(w, w.proj[t].to)
      [] OTHER -> TRUE

\* os.path.lexists(): the name is occupied, whatever occupies it
EntryPresent(w, t) == w.proj[t].kind # "absent"

\* Path.is_symlink()
EntryIsSymlink(w, t) == w.proj[t].kind = "symlink"

\* the entry is a symlink that resolves to the existing place p
ResolvesTo(w, t, p) == EntryIsSymlink(w, t) /\ w.proj[t].to = p /\ PlaceExists(w, p)

----------------------------------------------------------------------------
(* pkglink/symlinks.py *)

\* a removal that follows a symlink and removes its destination with it
remove_target_follows(w, t) ==
    IF w.proj[t].kind = "symlink" /\ w.proj[t].to.root = "loc"
    THEN [w EXCEPT !.proj[t] = Absent, !.locs[w.proj[t].to.id] = Absent]
    ELSE IF w.proj[t].kind \in {"symlink", "dir", "file"}
    THEN [w EXCEPT !.proj[t] = Absent]
    ELSE w

\* remove_target(target): unlink a symlink, rmtree a directory, unlink a file
remove_target(w, t) ==
    IF w.proj[t].kind \in {"symlink", "dir", "file"}
    THEN [w EXCEPT !.proj[t] = Absent]
    ELSE w

\* outcome of a call: the new filesystem, the value returned or exception
\* raised, and whether remove_target removed the entry
Outcome(w, res, rem) == [world |-> w, result |-> res, removed |-> rem]

\* target.symlink_to(source): os.symlink fails with EEXIST on an occupied name
symlink_to(w, source, t, rem) ==
    IF EntryPresent(w, t)
    THEN Outcome(w, "OSFileExistsError", rem)
    ELSE Outcome([w EXCEPT !.proj[t] = Symlink(source)], "True", rem)

\* a copy of the tree that is reported as a symlink
copytree_as_symlink(w, source, t, rem) ==
    IF EntryPresent(w, t)
    THEN Outcome(w, "OSFileExistsError", rem)
    ELSE Outcome([w EXCEPT !.proj[t] = Dir(PlaceData(w, source))], "True", rem)

\* shutil.copytree(source, target): os.makedirs(target) fails with EEXIST on
\* an occupied name
copytree(w, source, t, rem) ==
    IF EntryPresent(w, t)
    THEN Outcome(w, "OSFileExistsError", rem)
    ELSE Outcome([w EXCEPT !.proj[t] = Dir(PlaceData(w, source))], "False", rem)

\* shutil.copy2(source, target): opens target for writing, which follows a
\* symlink; through a broken symlink the file is created at the link's
\* destination when the destination's parent directory exists (parentOk)
copy2(w, source, t, rem, parentOk) ==
    IF EntryIsSymlink(w, t)
    THEN IF parentOk /\ w.proj[t].to.root = "loc"
         THEN Outcome([w EXCEPT !.locs[w.proj[t].to.id] = File(PlaceData(w, source))],
                      "False", rem)
         ELSE Outcome(w, "OSFileNotFoundError", rem)
    ELSE Outcome([w EXCEPT !.proj[t] = File(PlaceData(w, source))], "False", rem)

\* create_symlink without the "target exists and not force" refusal: an
\* existing target is removed and replaced whatever force says
create_symlink_overwrites(w, source, t, force, sup, parentOk) ==
    LET rem == EntryExists(w, t)
        w1 == IF rem THEN remove_target(w, t) ELSE w
    IN  IF ~PlaceExists(w1, source)
        THEN Outcome(w1, "SourceDoesNotExist", rem)
        ELSE IF sup
             THEN symlink_to(w1, source, t, rem)
             ELSE IF PlaceIsDir(w1, source)
                  THEN copytree(w1, source, t, rem)
                  ELSE copy2(w1, source, t, rem, parentOk)

\* create_symlink(source, target, force); sup is supports_symlinks()
create_symlink(w, source, t, force, sup, parentOk) ==
    IF EntryExists(w, t) /\ ~force
    THEN Outcome(w, "TargetAlreadyExists", FALSE)
    ELSE LET rem == EntryExists(w, t) /\ force
             w1 == IF rem THEN remove_target(w, t) ELSE w
         IN  IF ~PlaceExists(w1, source)
             THEN Outcome(w1, "SourceDoesNotExist", rem)
             ELSE IF sup
                  THEN symlink_to(w1, source, t, rem)
                  ELSE IF PlaceIsDir(w1, source)
                       THEN copytree(w1, source, t, rem)
                       ELSE copy2(w1, source, t, rem, parentOk)

NoLink == [op |-> "none", source |-> NoPlace, target |-> NoName, force |-> FALSE,
           sup |-> FALSE, result |-> "none", removed |-> FALSE,
           pre |-> Absent, preExists |-> FALSE, preSource |-> FALSE]

\* the filesystem of the current state
Now == World(proj, locs, cache, tmp)

\* a call of create_symlink(source, target, force=force)
CreateSymlink(source, t, force, sup, parentOk) ==
    LET out == create_symlink(Now, source, t, force, sup, parentOk)
    IN  /\ proj' = out.world.proj
        /\ locs' = out.world.locs
        /\ link' = [op |-> "create_symlink", source |-> source, target |-> t,
                    force |-> force, sup |-> sup, result |-> out.result,
                    removed |-> out.removed, pre |-> proj[t],
                    preExists |-> EntryExists(Now, t),
                    preSource |-> PlaceExists(Now, source)]
        /\ UNCHANGED <<cache, tmp, gen, inst, run, cls, look, batch>>

\* a direct call of remove_target(target)
RemoveTarget(t) ==
    /\ proj' = remove_target(Now, t).proj
    /\ link' = [op |-> "remove_target", source |-> NoPlace, target |-> t,
                force |-> FALSE, sup |-> FALSE, result |-> "None",
                removed |-> EntryPresent(Now, t), pre |-> proj[t],
                preExists |-> EntryExists(Now, t),
                preSource |-> FALSE]
    /\ UNCHANGED <<locs, cache, tmp, gen, inst, run, cls, look, batch>>

----------------------------------------------------------------------------
(* SpecLink: calls into pkglink/symlinks.py on an arbitrary project directory *)

InitLink ==
    /\ proj \in [TargetNames -> UserEntries]
    /\ locs \in {f \in [Locations -> UNION {LocNodes(l) : l \in Locations}] :
                    \A l \in Locations : f[l] \in LocNodes(l)}
    /\ cache = <<>>
    /\ tmp = <<>>
    /\ gen = 0
    /\ link = NoLink
    /\ inst = <<>>
    /\ run = <<>>
    /\ cls = <<>>
    /\ look = NoLook
    /\ batch = NoBatch

\* the sources a link may be asked for: the locations, existing or not
LinkSources == {Loc(l) : l \in Locations}

NextLink ==
    \/ \E source \in LinkSources, t \in TargetNames, force \in BOOLEAN,
          sup \in BOOLEAN, parentOk \in BOOLEAN :
          CreateSymlink(source, t, force, sup, parentOk)
    \/ \E t \in TargetNames : RemoveTarget(t)

SpecLink == InitLink /\ [][NextLink]_vars

----------------------------------------------------------------------------
(* Claims about the symlink reconciler, checked under SpecLink *)

LinkCalled == link.op \in {"create_symlink", "remove_target"}

\* C1: remove_target, called directly or through create_symlink(force=True),
\* never removes an entry whose name does not start with '.': the entry that
\* occupied such a name is left intact, and a direct call refuses with a
\* ValueError.
C1_RemovalSafety ==
    (LinkCalled /\ ~StartsWithDot(link.target) /\ link.pre.kind # "absent") =>
        /\ ~link.removed
        /\ proj[link.target] = link.pre
        /\ link.op = "remove_target" => link.result = "ValueError"

\* C2: create_symlink with force=False on an existing target raises the
\* 'Target already exists' error, and without force an occupied target name
\* (existing or a broken symlink) is never removed or overwritten.
C2_NoForceKeepsTarget ==
    (link.op = "create_symlink" /\ ~link.force) =>
        /\ link.preExists => link.result = "TargetAlreadyExists"
        /\ link.pre.kind # "absent" =>
              (proj[link.target] = link.pre /\ ~link.removed)

\* C2 witness: create_symlink(force=False) was called on an existing directory
C2_Witness ==
    /\ link.op = "create_symlink"
    /\ ~link.force
    /\ link.preExists
    /\ link.pre = Dir("user")
    /\ link.result = "TargetAlreadyExists"
    /\ proj[link.target] = Dir("user")

\* C4: with force=True and an existing source, whatever occupied the target
\* (nothing, a correct symlink, a symlink elsewhere, a broken symlink, a file,
\* a directory), create_symlink on a platform with symlinks succeeds and the
\* target ends as a symlink resolving to the source.
C4_ForceRecreates ==
    (link.op = "create_symlink" /\ link.force /\ link.preSource /\ link.sup) =>
        /\ link.result = "True"
        /\ ResolvesTo(Now, link.target, link.source)

\* C5: if the source does not exist, create_symlink fails and the target is
\* exactly as it was before the call, for every force and every target state.
C5_MissingSourceNoMutation ==
    (link.op = "create_symlink" /\ ~link.preSource) =>
        /\ link.result \in {"SourceDoesNotExist", "TargetAlreadyExists"}
        /\ proj[link.target] = link.pre

----------------------------------------------------------------------------
(* pkglink/models.py: SourceSpec *)

\* version=None / org=None: a value no character sequence equals
None == <<"None">>

\* truth value of an optional string: None and '' are false
Truthy(v) == v # None /\ v # <<>>

SourceSpec(type, name, version, org) ==
    [source_type |-> type, name |-> name, version |-> version, org |-> org]

Repo == <<"r", "e", "p", "o">>
Org == <<"o", "r", "g">>
Requests == <<"r", "e", "q", "u", "e", "s", "t", "s">>
MyDir == <<"m", "y", "d", "i", "r">>

VMain == <<"m", "a", "i", "n">>
VTag == <<"v", "1", ".", "2", ".", "3">>

----------------------------------------------------------------------------
(* pkglink/pkglinkx.py: mutability classification *)

HexChars == {"a", "b", "c", "d", "e", "f",
             "0", "1", "2", "3", "4", "5", "6", "7", "8", "9"}
Digits == {"0", "1", "2", "3", "4", "5", "6", "7", "8", "9"}

\* the {40} of the commit-hash pattern
HashLen == 40

\* re.match(r'^[a-f0-9]{40}$', v); '$' also matches before a final newline
MatchesCommitHash(v) ==
    /\ \/ Len(v) = HashLen
       \/ Len(v) = HashLen + 1 /\ v[HashLen + 1] = "\n"
    /\ \A i \in 1..HashLen : v[i] \in HexChars

\* \d+ at position i: the position after the longest run of digits from i
RECURSIVE DigitsEnd(_, _)
DigitsEnd(v, i) ==
    IF i <= Len(v) /\ v[i] \in Digits THEN DigitsEnd(v, i + 1) ELSE i

\* v[i] is a literal dot
DotAt(v, i) == i <= Len(v) /\ v[i] = "."

\* re.match(r'^v?\d+\.\d+\.\d+', v): a prefix match, whatever follows
MatchesSemverTag(v) ==
    LET i0 == IF Len(v) >= 1 /\ v[1] = "v" THEN 2 ELSE 1
        i1 == DigitsEnd(v, i0)
        i2 == DigitsEnd(v, i1 + 1)
        i3 == DigitsEnd(v, i2 + 1)
    IN  /\ i1 > i0
        /\ DotAt(v, i1)
        /\ i2 > i1 + 1
        /\ DotAt(v, i2)
        /\ i3 > i2 + 1

\* the classification with the version patterns left out: every github
\* reference that names a version counts as immutable
is_immutable_any_version(spec) ==
    \/ spec.source_type = "package" /\ Truthy(spec.version)
    \/ spec.source_type = "github" /\ Truthy(spec.version)

\* _is_immutable_reference(spec)
is_immutable_reference(spec) ==
    IF spec.source_type = "package" /\ Truthy(spec.version)
    THEN TRUE
    ELSE IF spec.source_type = "github" /\ Truthy(spec.version)
         THEN MatchesCommitHash(spec.version) \/ MatchesSemverTag(spec.version)
         ELSE FALSE

NoCls == [op |-> "none", spec |-> SourceSpec("local", MyDir, None, None), result |-> FALSE]

\* a call of _is_immutable_reference on the spec at hand
Classify ==
    /\ cls' = [op |-> "is_immutable", spec |-> cls.spec,
               result |-> is_immutable_reference(cls.spec)]
    /\ UNCHANGED <<proj, locs, cache, tmp, gen, link, inst, run, look, batch>>

----------------------------------------------------------------------------
(* SpecImm: _is_immutable_reference on bounded inputs *)

\* longest generated version string
MaxVerLen == 5

VerAlphabet == {"v", "1", ".", "m"}

RECURSIVE StringsUpTo(_, _)
StringsUpTo(alphabet, n) ==
    IF n = 0 THEN {<<>>}
    ELSE LET shorter == StringsUpTo(alphabet, n - 1)
         IN  shorter \cup {Append(w, c) : w \in shorter, c \in alphabet}

\* a string of n copies of the character c
Repeat(c, n) == [i \in 1..n |-> c]

\* main, develop, fix/bug-123, feature-branch
BranchNames ==
    {VMain,
     <<"d", "e", "v", "e", "l", "o", "p">>,
     <<"f", "i", "x", "/", "b", "u", "g", "-", "1", "2", "3">>,
     <<"f", "e", "a", "t", "u", "r", "e", "-", "b", "r", "a", "n", "c", "h">>}

\* v1.2.3, 1.2.3, v10.20.30, 2.0.0-alpha.1
TagNames ==
    {VTag,
     <<"1", ".", "2", ".", "3">>,
     <<"v", "1", "0", ".", "2", "0", ".", "3", "0">>,
     <<"2", ".", "0", ".", "0", "-", "a", "l", "p", "h", "a", ".", "1">>}
HashLike == {Repeat("a", HashLen), Repeat("a", HashLen - 1), Repeat("a", HashLen + 1),
             Repeat("A", HashLen), Repeat("g", HashLen),
             [i \in 1..HashLen |-> IF i = HashLen THEN "G" ELSE "0"],
             [i \in 1..HashLen |-> IF i % 2 = 0 THEN "f" ELSE "9"]}

ImmVersions ==
    {None} \cup StringsUpTo(VerAlphabet, MaxVerLen) \cup BranchNames \cup TagNames
           \cup HashLike

ImmSpecs ==
    {SourceSpec("github", Repo, v, Org) : v \in ImmVersions}
    \cup {SourceSpec("package", Requests, v, None) : v \in ImmVersions}
    \cup {SourceSpec("local", MyDir, v, None) : v \in ImmVersions}

InitImm ==
    /\ proj = <<>>
    /\ locs = <<>>
    /\ cache = <<>>
    /\ tmp = <<>>
    /\ gen = 0
    /\ link = NoLink
    /\ inst = <<>>
    /\ run = <<>>
    /\ cls \in {[op |-> "none", spec |-> spec, result |-> FALSE] : spec \in ImmSpecs}
    /\ look = NoLook
    /\ batch = NoBatch

NextImm == Classify

SpecImm == InitImm /\ [][NextImm]_vars

(* Claim about the classification, checked under SpecImm *)

\* a commit hash: 40 lowercase hexadecimal characters
IsCommitHash(v) == Len(v) = 40 /\ \A i \in 1..Len(v) : v[i] \in HexChars

AllDigits(v, from, to) == from <= to /\ \A i \in from..to : v[i] \in Digits

\* a semantic-version-like tag: an optional 'v', then MAJOR.MINOR.PATCH as
\* three non-empty groups of digits (a suffix such as -alpha.1 may follow)
IsSemverLike(v) ==
    \E s \in {0, 1} :
        /\ s = 1 => (Len(v) >= 1 /\ v[1] = "v")
        /\ \E i, j, k \in 1..Len(v) :
              /\ s < i /\ i < j /\ j < k
              /\ AllDigits(v, s + 1, i - 1) /\ v[i] = "."
              /\ AllDigits(v, i + 1, j - 1) /\ v[j] = "."
              /\ AllDigits(v, j + 1, k)

\* C9: _is_immutable_reference returns true exactly for a package with an
\* explicit version and for a github spec whose version is a commit hash or a
\* semantic-version-like tag; it returns false for the branch names main,
\* develop, feature-branch and fix/bug-123, for unpinned specs and for every
\* local spec, whatever was classified before.
C9_ImmutableExactly ==
    cls.op = "is_immutable" =>
        LET spec == cls.spec
            v == spec.version
        IN  /\ cls.result <=>
                 \/ spec.source_type = "package" /\ v # None /\ v # <<>>
                 \/ /\ spec.source_type = "github" /\ v # None
                    /\ IsCommitHash(v) \/ IsSemverLike(v)
            /\ (spec.source_type = "github" /\ v \in BranchNames) => ~cls.result
            /\ spec.source_type = "local" => ~cls.result
            /\ v = None => ~cls.result

\* C9 witness: a commit hash has been classified immutable
C9_Witness ==
    /\ cls.op = "is_immutable"
    /\ cls.spec = SourceSpec("github", Repo, Repeat("a", 40), Org)
    /\ cls.result

----------------------------------------------------------------------------
(* pkglink/installation.py: the package-root locator *)

\* str.startswith / str.endswith
StartsWith(x, prefix) ==
    Len(prefix) <= Len(x) /\ SubSeq(x, 1, Len(prefix)) = prefix
EndsWith(x, suffix) ==
    Len(suffix) <= Len(x) /\ SubSeq(x, Len(x) - Len(suffix) + 1, Len(x)) = suffix

UpperCase == <<"A", "B", "C", "D", "E", "F", "G", "H", "I", "J", "K", "L", "M",
               "N", "O", "P", "Q", "R", "S", "T", "U", "V", "W", "X", "Y", "Z">>
LowerCase == <<"a", "b", "c", "d", "e", "f", "g", "h", "i", "j", "k", "l", "m",
               "n", "o", "p", "q", "r", "s", "t", "u", "v", "w", "x", "y", "z">>

\* str.lower()
LowerChar(c) ==
    IF \E i \in 1..Len(UpperCase) : UpperCase[i] = c
    THEN LowerCase[CHOOSE i \in 1..Len(UpperCase) : UpperCase[i] = c]
    ELSE c
Lower(x) == [i \in 1..Len(x) |-> LowerChar(x[i])]

\* index of the first entry of the listing that satisfies Test, 0 if none
\* (for item in install_dir.iterdir(): if ...: return item)
FirstIndex(listing, Test(_)) ==
    IF \E i \in 1..Len(listing) : Test(listing[i])
    THEN CHOOSE i \in 1..Len(listing) :
            Test(listing[i]) /\ \A j \in 1..(i - 1) : ~Test(listing[j])
    ELSE 0

\* find_exact_match: (install_dir / expected_name).is_dir()
find_exact_match(listing, expected) ==
    LET Test(e) == e.isdir /\ e.name = expected IN FirstIndex(listing, Test)

\* find_python_package
find_python_package(listing) ==
    LET Test(e) == e.isdir /\ e.init IN FirstIndex(listing, Test)

\* find_with_resources
find_with_resources(listing) ==
    LET Test(e) == e.isdir /\ e.res IN FirstIndex(listing, Test)

\* find_by_prefix
find_by_prefix(listing, expected) ==
    LET Test(e) == e.isdir /\ StartsWith(e.name, expected) IN FirstIndex(listing, Test)

\* find_by_suffix
find_by_suffix(listing, expected) ==
    LET Test(e) == e.isdir /\ EndsWith(e.name, expected) IN FirstIndex(listing, Test)

\* is_dir and not hidden and not a .dist-info directory
Candidate(e) ==
    e.isdir /\ ~StartsWithDot(e.name) /\ ~EndsWith(e.name, DistInfoSuffix)

\* length of the common run of a from i and b from j, inside a[..ahi], b[..bhi]
RECURSIVE CommonRun(_, _, _, _, _, _)
CommonRun(a, b, i, j, ahi, bhi) ==
    IF i <= ahi /\ j <= bhi /\ a[i] = b[j]
    THEN 1 + CommonRun(a, b, i + 1, j + 1, ahi, bhi)
    ELSE 0

\* SequenceMatcher.find_longest_match(alo, ahi, blo, bhi): the longest common
\* block, the one starting earliest in a, then earliest in b
find_longest_match(a, b, alo, ahi, blo, bhi) ==
    LET starts == (alo..ahi) \X (blo..bhi)
        Run(st) == CommonRun(a, b, st[1], st[2], ahi, bhi)
        best == CHOOSE st \in starts :
                    \A other \in starts :
                        \/ Run(st) > Run(other)
                        \/ /\ Run(st) = Run(other)
                           /\ \/ st[1] < other[1]
                              \/ st[1] = other[1] /\ st[2] <= other[2]
    IN  [i |-> best[1], j |-> best[2], k |-> Run(best)]

\* total size of SequenceMatcher.get_matching_blocks() within the two ranges
RECURSIVE MatchingSize(_, _, _, _, _, _)
MatchingSize(a, b, alo, ahi, blo, bhi) ==
    IF alo > ahi \/ blo > bhi
    THEN 0
    ELSE LET m == find_longest_match(a, b, alo, ahi, blo, bhi)
         IN  IF m.k = 0
             THEN 0
             ELSE m.k + MatchingSize(a, b, alo, m.i - 1, blo, m.j - 1)
                      + MatchingSize(a, b, m.i + m.k, ahi, m.j + m.k, bhi)

\* SequenceMatcher(None, a, b).ratio() = 2.0 * matches / (len(a) + len(b)),
\* kept as the fraction [num, den]; 1.0 when both are empty
Ratio(a, b) ==
    IF Len(a) + Len(b) = 0
    THEN [num |-> 1, den |-> 1]
    ELSE [num |-> 2 * MatchingSize(a, b, 1, Len(a), 1, Len(b)), den |-> Len(a) + Len(b)]

\* x > y on fractions
Greater(x, y) == x.num * y.den > y.num * x.den

\* best_ratio = 0.6, the minimum similarity threshold
Threshold == [num |-> 6, den |-> 10]

\* the loop of find_by_similarity over the first n entries: the best match so
\* far (0 if none) and its ratio
RECURSIVE SimilarityScan(_, _, _)
SimilarityScan(listing, expected, n) ==
    IF n = 0
    THEN [best |-> 0, ratio |-> Threshold]
    ELSE LET before == SimilarityScan(listing, expected, n - 1)
             ratio == Ratio(Lower(expected), Lower(listing[n].name))
         IN  IF Candidate(listing[n]) /\ Greater(ratio, before.ratio)
             THEN [best |-> n, ratio |-> ratio]
             ELSE before

\* find_by_similarity
find_by_similarity(listing, expected) ==
    SimilarityScan(listing, expected, Len(listing)).best

\* find_first_directory
find_first_directory(listing) == FirstIndex(listing, Candidate)

\* the strategies of find_package_root in the order of the list
StrategyNames == <<"find_exact_match", "find_python_package", "find_with_resources",
                   "find_by_prefix", "find_by_suffix", "find_by_similarity",
                   "find_first_directory">>

RunStrategy(name, listing, expected) ==
    CASE name = "find_exact_match" -> find_exact_match(listing, expected)
      [] name = "find_python_package" -> find_python_package(listing)
      [] name = "find_with_resources" -> find_with_resources(listing)
      [] name = "find_by_prefix" -> find_by_prefix(listing, expected)
      [] name = "find_by_suffix" -> find_by_suffix(listing, expected)
      [] name = "find_by_similarity" -> find_by_similarity(listing, expected)
      [] OTHER -> find_first_directory(listing)

\* find_package_root(install_dir, expected_name): the index of the entry the
\* first successful strategy returns and that strategy's name; index 0 with
\* strategy "none" where it raises RuntimeError 'Package root ... not found'
RECURSIVE TryStrategies(_, _, _)
TryStrategies(listing, expected, n) ==
    IF n > Len(StrategyNames)
    THEN [index |-> 0, strategy |-> "none"]
    ELSE LET found == RunStrategy(StrategyNames[n], listing, expected)
         IN  IF found # 0
             THEN [index |-> found, strategy |-> StrategyNames[n]]
             ELSE TryStrategies(listing, expected, n + 1)

\* a locator that looks for a directory with resources before anything else
find_package_root_resources_first(listing, expected) ==
    IF find_with_resources(listing) # 0
    THEN [index |-> find_with_resources(listing), strategy |-> "find_with_resources"]
    ELSE TryStrategies(listing, expected, 1)

find_package_root(listing, expected) == TryStrategies(listing, expected, 1)

----------------------------------------------------------------------------
(* SpecRoot: find_package_root on one install directory, listed again and  *)
(* again in the orders iterdir() may produce                               *)

Nope == <<"n", "o", "p", "e">>
ExpectedNames == {Repo, Nope}

\* what an install directory may hold: the module itself, unrelated Python
\* packages, an unrelated directory with resources, directories with a
\* similar name, a plain directory, the metadata of another distribution and
\* of the module's own, a hidden directory without and with resources, a file
RootEntries ==
    {Entry(Repo, TRUE, TRUE, TRUE),
     Entry(<<"o", "t", "h", "e", "r">>, TRUE, TRUE, FALSE),
     Entry(<<"e", "x", "t", "r", "a">>, TRUE, TRUE, FALSE),
     Entry(<<"t", "o", "o", "l", "s">>, TRUE, FALSE, TRUE),
     Entry(<<"r", "e", "p", "o", "2">>, TRUE, FALSE, FALSE),
     Entry(<<"m", "y", "r", "e", "p", "o">>, TRUE, FALSE, FALSE),
     Entry(<<"r", "a", "p", "o">>, TRUE, FALSE, FALSE),
     Entry(<<"z", "z", "z">>, TRUE, FALSE, FALSE),
     Entry(DistInfo(Requests), TRUE, FALSE, FALSE),
     Entry(DistInfo(Repo), TRUE, FALSE, FALSE),
     Entry(<<".", "h", "i", "d">>, TRUE, FALSE, FALSE),
     Entry(<<".", "v", "e", "n", "v">>, TRUE, FALSE, TRUE),
     Entry(Readme, FALSE, FALSE, FALSE)}

\* most entries in the install directory
MaxEntries == 3

RootDirs == {S \in SUBSET RootEntries : Cardinality(S) <= MaxEntries}

\* the orders in which iterdir() may list the entries S
Orders(S) ==
    {f \in [1..Cardinality(S) -> S] : \A i, j \in 1..Cardinality(S) : f[i] = f[j] => i = j}

\* the record of a call that listed the directory in this order; again tells
\* that the directory was searched before, with the result before
LookRecord(order, out) ==
    [op |-> "find_package_root", entries |-> look.entries, expected |-> look.expected,
     index |-> out.index, strategy |-> out.strategy,
     name |-> IF out.index = 0 THEN NoName ELSE order[out.index].name,
     error |-> IF out.index = 0 THEN "RuntimeError:Package root not found" ELSE "none",
     again |-> look.op = "find_package_root",
     before |-> IF look.op = "find_package_root" THEN look.name ELSE NoName]

\* a call of find_package_root(install_dir, expected_name)
FindPackageRoot(order) ==
    /\ look' = LookRecord(order, find_package_root(order, look.expected))
    /\ UNCHANGED <<proj, locs, cache, tmp, gen, link, inst, run, cls, batch>>

InitRoot ==
    /\ proj = <<>>
    /\ locs = <<>>
    /\ cache = <<>>
    /\ tmp = <<>>
    /\ gen = 0
    /\ link = NoLink
    /\ inst = <<>>
    /\ run = <<>>
    /\ cls = <<>>
    /\ look \in {[op |-> "none", entries |-> S, expected |-> e, index |-> 0,
                  strategy |-> "none", name |-> NoName, error |-> "none",
                  again |-> FALSE, before |-> NoName] :
                    S \in RootDirs, e \in ExpectedNames}
    /\ batch = NoBatch

NextRoot == \E order \in Orders(look.entries) : FindPackageRoot(order)

SpecRoot == InitRoot /\ [][NextRoot]_vars

(* Claims about find_package_root, checked under SpecRoot *)

Looked == look.op = "find_package_root"

\* what makes an entry a candidate of a strategy, whatever the order of the
\* listing
Accepts(strategy, e, expected) ==
    CASE strategy = "find_exact_match" -> e.isdir /\ e.name = expected
      [] strategy = "find_python_package" -> e.isdir /\ e.init
      [] strategy = "find_with_resources" -> e.isdir /\ e.res
      [] strategy = "find_by_prefix" -> e.isdir /\ StartsWith(e.name, expected)
      [] strategy = "find_by_suffix" -> e.isdir /\ EndsWith(e.name, expected)
      [] strategy = "find_by_similarity" ->
            Candidate(e) /\ Greater(Ratio(Lower(expected), Lower(e.name)), Threshold)
      [] OTHER -> Candidate(e)

\* the positions in StrategyNames of the strategies that have a candidate
Successful(S, expected) ==
    {n \in 1..Len(StrategyNames) : \E e \in S : Accepts(StrategyNames[n], e, expected)}

C14_OrderIndependent ==
    (Looked /\ look.again) => look.name = look.before

\* an entry that has nothing to do with the expected name: not the name, no
\* name with it as prefix or suffix, no similar name
Unrelated(e, expected) ==
    /\ e.name # expected
    /\ ~StartsWith(e.name, expected)
    /\ ~EndsWith(e.name, expected)
    /\ ~Greater(Ratio(Lower(expected), Lower(e.name)), Threshold)

\* C15: when install_dir contains no directory for expected_name, only
\* unrelated directories, find_package_root raises the RuntimeError that the
\* package was not found and returns no unrelated directory.
C15_UnrelatedNotReturned ==
    (Looked /\ \A e \in look.entries : Unrelated(e, look.expected)) =>
        /\ look.error = "RuntimeError:Package root not found"
        /\ look.name = NoName

----------------------------------------------------------------------------
(* pkglink/parsing.py: parse_source *)

\* index of the first occurrence of the character c in x, 0 if there is none
Find(x, c) ==
    IF \E i \in 1..Len(x) : x[i] = c
    THEN CHOOSE i \in 1..Len(x) : x[i] = c /\ \A j \in 1..(i - 1) : x[j] # c
    ELSE 0

Whitespace == {" ", "\t", "\n", "\r"}

\* str.strip()
RECURSIVE LStrip(_)
LStrip(x) ==
    IF Len(x) > 0 /\ x[1] \in Whitespace THEN LStrip(Tail(x)) ELSE x
RECURSIVE RStrip(_)
RStrip(x) ==
    IF Len(x) > 0 /\ x[Len(x)] \in Whitespace THEN RStrip(SubSeq(x, 1, Len(x) - 1)) ELSE x
Strip(x) == RStrip(LStrip(x))

\* x.split(sep)
RECURSIVE Split(_, _)
Split(x, sep) ==
    LET i == Find(x, sep)
    IN  IF i = 0
        THEN <<x>>
        ELSE <<SubSeq(x, 1, i - 1)>> \o Split(SubSeq(x, i + 1, Len(x)), sep)

\* the components pathlib keeps of a path: empty ones and '.' are dropped
IsComponent(c) == c # <<>> /\ c # <<".">>
Components(x) == SelectSeq(Split(x, "/"), IsComponent)

\* the home directory of the user
Home == <<<<"h", "o", "m", "e">>, <<"u", "s", "e", "r">>>>

\* Path(source).expanduser(): the components after expansion of a leading '~';
\* ok is FALSE where the home directory of '~name' cannot be determined
expanduser(x) ==
    LET parts == Components(x)
    IN  IF Len(x) > 0 /\ x[1] = "~"
        THEN IF parts[1] = <<"~">>
             THEN [ok |-> TRUE, parts |-> Home \o Tail(parts)]
             ELSE [ok |-> FALSE, parts |-> parts]
        ELSE [ok |-> TRUE, parts |-> parts]

\* Path.name: the final component, '' if there is none
PathName(parts) == IF Len(parts) = 0 THEN <<>> ELSE parts[Len(parts)]

NoSpec == SourceSpec("none", NoName, None, None)
Parsed(spec) == [ok |-> TRUE, error |-> "none", spec |-> spec]
Failed(e) == [ok |-> FALSE, error |-> e, spec |-> NoSpec]

\* SourceSpec(...) with its validator of name: stripped, and rejected when
\* nothing is left
NewSourceSpec(type, name, version, org) ==
    IF Strip(name) = <<>>
    THEN Failed("ValidationError:Source name cannot be empty")
    ELSE Parsed(SourceSpec(type, Strip(name), version, org))

GithubPrefix == <<"g", "i", "t", "h", "u", "b", ":">>

\* '.' of a regular expression: any character but a newline
NoNewline(x) == \A i \in 1..Len(x) : x[i] # "\n"

\* (?:@(.+))?$ on the rest of the string: matched is FALSE where neither
\* alternative matches; the version is None where the group is absent
VersionSuffix(rest) ==
    CASE rest = <<>> -> [matched |-> TRUE, version |-> None]
      [] rest = <<"\n">> -> [matched |-> TRUE, version |-> None]
      [] rest[1] = "@" /\ Len(rest) >= 2 /\ rest[2] # "\n"
                /\ NoNewline(SubSeq(rest, 2, Len(rest) - 1)) ->
            [matched |-> TRUE,
             version |-> IF rest[Len(rest)] = "\n" /\ Len(rest) >= 3
                         THEN SubSeq(rest, 2, Len(rest) - 1)
                         ELSE Tail(rest)]
      [] OTHER -> [matched |-> FALSE, version |-> None]

\* the position after the longest run of characters not in stop, from i
RECURSIVE RunEnd(_, _, _)
RunEnd(x, i, stop) ==
    IF i <= Len(x) /\ x[i] \notin stop THEN RunEnd(x, i + 1, stop) ELSE i

\* re.match(r'^github:([^/]+)/([^@/]+)(?:@(.+))?$', source)
github_match(source) ==
    LET rest == SubSeq(source, Len(GithubPrefix) + 1, Len(source))
        slash == Find(rest, "/")
        stop == RunEnd(rest, slash + 1, {"@", "/"})
        suffix == VersionSuffix(SubSeq(rest, stop, Len(rest)))
    IN  IF slash >= 2 /\ stop > slash + 1 /\ suffix.matched
        THEN [matched |-> TRUE, org |-> SubSeq(rest, 1, slash - 1),
              repo |-> SubSeq(rest, slash + 1, stop - 1), version |-> suffix.version]
        ELSE [matched |-> FALSE, org |-> None, repo |-> None, version |-> None]

\* re.match(r'^([^@]+)(?:@(.+))?$', source)
package_match(source) ==
    LET stop == RunEnd(source, 1, {"@"})
        suffix == VersionSuffix(SubSeq(source, stop, Len(source)))
    IN  IF stop > 1 /\ suffix.matched
        THEN [matched |-> TRUE, name |-> SubSeq(source, 1, stop - 1),
              version |-> suffix.version]
        ELSE [matched |-> FALSE, name |-> None, version |-> None]

\* parse_source(source)
parse_source(source) ==
    IF StartsWith(source, GithubPrefix)
    THEN LET m == github_match(source)
         IN  IF m.matched
             THEN IF Strip(m.org) = <<>> \/ Strip(m.repo) = <<>>
                  THEN Failed("ValueError:Invalid source format")
                  ELSE NewSourceSpec("github", Strip(m.repo),
                                     IF Truthy(m.version) THEN Strip(m.version) ELSE None,
                                     Strip(m.org))
             ELSE Failed("ValueError:Invalid source format")
    ELSE IF StartsWith(source, <<".", "/">>) \/ StartsWith(source, <<"/">>)
            \/ StartsWith(source, <<"~">>)
         THEN LET path == expanduser(source)
              IN  IF path.ok
                  THEN NewSourceSpec("local", PathName(path.parts), None, None)
                  ELSE Failed("RuntimeError:Could not determine home directory")
         ELSE LET m == package_match(source)
              IN  IF m.matched
                  THEN NewSourceSpec("package", m.name, m.version, None)
                  ELSE Failed("ValueError:Invalid source format")

\* determine_install_spec_and_module(args): the spec to install and the
\* module to look for
determine_install_spec_and_module(args) ==
    IF Truthy(args.from_package)
    THEN LET parsed == parse_source(args.from_package)
         IN  [ok |-> parsed.ok, error |-> parsed.error, spec |-> parsed.spec,
              module |-> args.source]
    ELSE LET parsed == parse_source(args.source)
         IN  [ok |-> parsed.ok, error |-> parsed.error, spec |-> parsed.spec,
              module |-> parsed.spec.name]

----------------------------------------------------------------------------
(* pkglink/parsing.py: build_uv_install_spec *)

GitPrefix == <<"g", "i", "t", "+", "h", "t", "t", "p", "s", ":", "/", "/", "g", "i", "t", "h", "u", "b", ".", "c", "o", "m", "/">>
GitSuffix == <<".", "g", "i", "t">>

\* str(x) inside an f-string: None is rendered as the text None
Text(v) == IF v = None THEN <<"N", "o", "n", "e">> ELSE v

\* build_uv_install_spec(spec): ok is FALSE where it raises ValueError
build_uv_install_spec(spec) ==
    CASE spec.source_type = "github" ->
            LET base_url == GitPrefix \o Text(spec.org) \o <<"/">> \o Text(spec.name) \o GitSuffix
            IN  [ok |-> TRUE,
                 str |-> IF Truthy(spec.version)
                         THEN base_url \o <<"@">> \o spec.version
                         ELSE base_url]
      [] spec.source_type = "package" ->
            [ok |-> TRUE,
             str |-> IF Truthy(spec.version)
                     THEN Text(spec.name) \o <<"=", "=">> \o spec.version
                     ELSE Text(spec.name)]
      [] OTHER -> [ok |-> FALSE, str |-> <<>>]

----------------------------------------------------------------------------
(* The cache root ~/.cache/pkglink and the remote *)

\* cache_base / f'{spec.name}_{spec_hash}': the directory name is decided by
\* the name and the install string (sha256 is taken to be collision-free on
\* the strings that occur)
cache_dir(spec) == <<spec.name, build_uv_install_spec(spec).str>>

CacheDir(k) == [root |-> "cache", id |-> "none", key |-> k, name |-> NoName, n |-> 0, sub |-> <<>>]
TmpDir(i) == [root |-> "tmp", id |-> "none", key |-> NoKey, name |-> NoName, n |-> i, sub |-> <<>>]

\* what a cache directory or temporary directory holds: the revision that was
\* installed, the layout of the installed site-packages and the name of the
\* module directory in it
NoContent == [exists |-> FALSE, rev |-> 0, layout |-> "none", name |-> NoName]
Content(name, r, l) == [exists |-> TRUE, rev |-> r, layout |-> l, name |-> name]

GTag == SourceSpec("github", Repo, VTag, Org)
GMain == SourceSpec("github", Repo, VMain, Org)
PPlain == SourceSpec("package", Requests, None, None)
LocalSpec == SourceSpec("local", MyDir, None, None)

RemoteSpecs == {GTag, GMain, PPlain}
CacheSpecs == RemoteSpecs \cup {LocalSpec}
CacheKeys == {cache_dir(spec) : spec \in RemoteSpecs}

\* references whose content the remote can replace: branches and unpinned
\* packages
MovingRefs == {GMain, PPlain}

\* highest revision the remote publishes
MaxGen == 2

\* the revision the remote serves for spec when its moving references are at g
Upstream(spec, g) == IF spec \in MovingRefs THEN g ELSE 0

\* the layout of what the remote serves for spec at revision r
RemoteLayout(spec, r) ==
    CASE r % 3 = 0 -> "pkg"
      [] r % 3 = 1 -> "bare"
      [] OTHER -> "empty"

\* what uvx or uv installs for spec when the moving references are at g
Fetched(spec, g) ==
    Content(spec.name, Upstream(spec, g), RemoteLayout(spec, Upstream(spec, g)))

\* outcomes of a subprocess.run(..., check=True): exit status 0, a non-zero
\* exit status, or the executable is missing
RunOutcomes == {"ok", "CalledProcessError", "FileNotFoundError"}

\* what the environment decides during one call
Envs == [rmtree : BOOLEAN, uvx : RunOutcomes, uv : RunOutcomes]

\* the environments that differ in what install_with_uvx reads
UvxEnvs == {env \in Envs : env.uv = "ok"}

\* the environments that differ in what install_with_uv reads
UvEnvs == {env \in Envs : env.uvx = "ok" /\ env.rmtree}

\* the environments that differ in what resolve_source_path reads: it
\* catches every exception of the installers alike
ResolveEnvs ==
    {env \in Envs : env.rmtree /\ env.uvx # "FileNotFoundError" /\ env.uv # "FileNotFoundError"}

\* a module name that differs from the names of the packages
Mod == <<"m", "o", "d">>
ModuleNames == {None, Mod}

----------------------------------------------------------------------------
(* Installers: pkglink/pkglinkx.py and pkglink/installation.py *)

\* what a call returned or raised; causes are the messages of other exceptions
\* that the message of the exception quotes
Ok(p) == [status |-> "ok", place |-> p, error |-> "none", causes |-> <<>>]
Err(e) == [status |-> "error", place |-> NoPlace, error |-> e, causes |-> <<>>]

\* what a call did: issued the uvx command (with --force-reinstall or not),
\* removed the cache directory, returned the cached directory, issued the
\* uv pip install command; calls lists the functions resolve_source_path
\* called, in order, each with the error it raised ("none" when it returned)
NoEv == [uvx |-> FALSE, flag |-> FALSE, removed |-> FALSE, reused |-> FALSE, uv |-> FALSE,
         calls |-> <<>>]

InstOut(w, res, ev) == [world |-> w, result |-> res, ev |-> ev]

\* out, with the call of fn that ended as out added to the calls
Called(out, fn) ==
    [out EXCEPT !.ev.calls = Append(@, [fn |-> fn, error |-> out.result.error])]

\* the RuntimeError of resolve_source_path after both installers failed:
\* 'Failed to install ...: uvx error: {e}, uv error: {fallback_error}'
BothFailed(e, fallback_error) ==
    [Err("RuntimeError:both") EXCEPT !.causes = <<e, fallback_error>>]

\* the exception a failed subprocess.run surfaces as
RunError(outcome, runtime) ==
    IF outcome = "CalledProcessError" THEN Err(runtime) ELSE Err("FileNotFoundError")

\* a cache that is refreshed on every call, whatever the reference
should_refresh_cache_always(w, spec) == TRUE

\* _should_refresh_cache(cache_dir, spec)
should_refresh_cache(w, spec) ==
    IF ~w.cache[cache_dir(spec)].exists
    THEN TRUE
    ELSE ~is_immutable_reference(spec)

\* --force-reinstall on every uvx command
force_reinstall_always(spec) == TRUE

\* force_reinstall = not _is_immutable_reference(spec)
force_reinstall(spec) == ~is_immutable_reference(spec)

\* pkglink.pkglinkx.install_with_uvx(spec)
x_install_with_uvx(w, g, spec, env) ==
    IF ~build_uv_install_spec(spec).ok
    THEN InstOut(w, Err("ValueError"), NoEv)
    ELSE
    LET k == cache_dir(spec)
        ex == w.cache[k].exists
    IN  IF ex /\ ~should_refresh_cache(w, spec)
        THEN InstOut(w, Ok(CacheDir(k)), [NoEv EXCEPT !.reused = TRUE])
        ELSE
        LET removed == ex /\ env.rmtree
            w1 == IF removed THEN [w EXCEPT !.cache[k] = NoContent] ELSE w
            ev == [NoEv EXCEPT !.uvx = TRUE, !.flag = force_reinstall(spec),
                               !.removed = removed]
        IN  IF env.uvx # "ok"
            THEN InstOut(w1, RunError(env.uvx, "RuntimeError:uvx"), ev)
            ELSE IF w1.cache[k].exists
                 THEN InstOut(w1, Err("FileExistsError"), ev)
                 ELSE InstOut([w1 EXCEPT !.cache[k] = Fetched(spec, g)],
                              Ok(CacheDir(k)), ev)

\* pkglink.installation.install_with_uvx(spec)
i_install_with_uvx(w, g, spec, env) ==
    IF ~build_uv_install_spec(spec).ok
    THEN InstOut(w, Err("ValueError"), NoEv)
    ELSE
    LET k == cache_dir(spec)
    IN  IF w.cache[k].exists
        THEN InstOut(w, Ok(CacheDir(k)), [NoEv EXCEPT !.reused = TRUE])
        ELSE
        LET ev == [NoEv EXCEPT !.uvx = TRUE]
        IN  IF env.uvx # "ok"
            THEN InstOut(w, RunError(env.uvx, "RuntimeError:uvx"), ev)
            ELSE InstOut([w EXCEPT !.cache[k] = Fetched(spec, g)],
                         Ok(CacheDir(k)), ev)

\* pkglink.installation.install_with_uv(spec): installs into a fresh
\* pkglink_uv_* temporary directory, which is removed again on failure
install_with_uv(w, g, spec, env) ==
    IF ~build_uv_install_spec(spec).ok
    THEN InstOut(w, Err("ValueError"), NoEv)
    ELSE
    LET ev == [NoEv EXCEPT !.uv = TRUE]
    IN  IF env.uv # "ok"
        THEN InstOut(w, RunError(env.uv, "RuntimeError:uv"), ev)
        ELSE InstOut([w EXCEPT !.tmp = Append(@, Fetched(spec, g))],
                     Ok(TmpDir(Len(w.tmp) + 1)), ev)

\* find_package_root(install_dir, target_module) on an installed directory
PackageRoot(w, dir, target_module, ev) ==
    LET listing == Listing(PlaceContent(w, dir))
        found == find_package_root(listing, target_module)
    IN  IF found.index = 0
        THEN Called(InstOut(w, Err("RuntimeError:root"), ev), "find_package_root")
        ELSE Called(InstOut(w, Ok(Sub(dir, listing[found.index].name)), ev),
                    "find_package_root")

\* resolve_source_path that sends every spec, local ones too, to the installers
resolve_source_path_installs(w, g, spec, module_name, env) ==
    LET target_module == IF Truthy(module_name) THEN module_name ELSE spec.name
        first == Called(i_install_with_uvx(w, g, spec, env), "install_with_uvx")
    IN  IF first.result.status = "ok"
        THEN PackageRoot(first.world, first.result.place, target_module, first.ev)
        ELSE LET second == Called(install_with_uv(first.world, g, spec, env),
                                  "install_with_uv")
                 ev == [first.ev EXCEPT !.uv = second.ev.uv,
                                        !.calls = @ \o second.ev.calls]
             IN  IF second.result.status = "ok"
                 THEN PackageRoot(second.world, second.result.place, target_module, ev)
                 ELSE InstOut(second.world,
                              BothFailed(first.result.error, second.result.error), ev)

\* resolve_source_path that also falls back to uv pip install --target when
\* find_package_root fails after the primary installation
resolve_source_path_root_fallback(w, g, spec, module_name, env) ==
    LET target_module == IF Truthy(module_name) THEN module_name ELSE spec.name
        first == Called(i_install_with_uvx(w, g, spec, env), "install_with_uvx")
        root == PackageRoot(first.world, first.result.place, target_module, first.ev)
    IN  IF spec.source_type = "local"
        THEN resolve_source_path_installs(w, g, spec, module_name, env)
        ELSE IF first.result.status = "ok" /\ root.result.status = "ok"
        THEN root
        ELSE LET base == IF first.result.status = "ok" THEN root ELSE first
                 second == Called(install_with_uv(base.world, g, spec, env),
                                  "install_with_uv")
                 ev == [base.ev EXCEPT !.uv = second.ev.uv,
                                       !.calls = @ \o second.ev.calls]
             IN  IF second.result.status = "ok"
                 THEN PackageRoot(second.world, second.result.place, target_module, ev)
                 ELSE InstOut(second.world,
                              BothFailed(base.result.error, second.result.error), ev)

\* pkglink.installation.resolve_source_path(spec, module_name)
resolve_source_path(w, g, spec, module_name, env) ==
    IF spec.source_type = "local"
    THEN LET path == Resolve(w, Cwd(spec.name), MaxHops)
         IN  IF ~PlaceExists(w, path)
             THEN InstOut(w, Err("RuntimeError:local"), NoEv)
             ELSE InstOut(w, Ok(path), NoEv)
    ELSE
    LET target_module == IF Truthy(module_name) THEN module_name ELSE spec.name
        first == Called(i_install_with_uvx(w, g, spec, env), "install_with_uvx")
    IN  IF first.result.status = "ok"
        THEN PackageRoot(first.world, first.result.place, target_module, first.ev)
        ELSE LET second == Called(install_with_uv(first.world, g, spec, env),
                                  "install_with_uv")
                 ev == [first.ev EXCEPT !.uv = second.ev.uv,
                                        !.calls = @ \o second.ev.calls]
             IN  IF second.result.status = "ok"
                 THEN PackageRoot(second.world, second.result.place, target_module, ev)
                 ELSE InstOut(second.world,
                              BothFailed(first.result.error, second.result.error), ev)

\* most pkglink_uv_* temporary directories left on disk
MaxTmp == 1

NoInst == [op |-> "none", spec |-> LocalSpec, module |-> None, result |-> Err("none"),
           ev |-> NoEv, gen |-> 0, pre |-> NoContent, cacheChanged |-> FALSE, tmpChanged |-> FALSE,
           preLocal |-> FALSE]

\* the content of the cache directory of spec (nothing for a local spec)
Cached(w, spec) ==
    IF cache_dir(spec) \in DOMAIN w.cache THEN w.cache[cache_dir(spec)] ELSE NoContent

\* the record of a call op(spec) that ended as out
InstRecord(op, spec, module_name, out) ==
    [op |-> op, spec |-> spec, module |-> module_name, result |-> out.result,
     ev |-> out.ev, gen |-> gen, pre |-> Cached(Now, spec),
     cacheChanged |-> out.world.cache # cache, tmpChanged |-> out.world.tmp # tmp,
     preLocal |-> PlaceExists(Now, Cwd(spec.name))]

\* the effect of a call that ended as out
Installed(op, spec, module_name, out) ==
    /\ Len(out.world.tmp) <= MaxTmp
    /\ cache' = out.world.cache
    /\ tmp' = out.world.tmp
    /\ inst' = InstRecord(op, spec, module_name, out)
    /\ UNCHANGED <<proj, locs, gen, link, run, cls, look, batch>>

\* a call of pkglink.pkglinkx.install_with_uvx(spec)
PkglinkxInstallWithUvx(spec, env) ==
    Installed("pkglinkx.install_with_uvx", spec, None,
              x_install_with_uvx(Now, gen, spec, env))

\* a call of pkglink.installation.install_with_uvx(spec)
InstallWithUvx(spec, env) ==
    Installed("installation.install_with_uvx", spec, None,
              i_install_with_uvx(Now, gen, spec, env))

\* a call of pkglink.installation.install_with_uv(spec)
InstallWithUv(spec, env) ==
    Installed("installation.install_with_uv", spec, None,
              install_with_uv(Now, gen, spec, env))

\* a call of pkglink.installation.resolve_source_path(spec, module_name)
ResolveSourcePath(spec, module_name, env) ==
    Installed("resolve_source_path", spec, module_name,
              resolve_source_path(Now, gen, spec, module_name, env))

\* the remote moves its branches and publishes new releases
Publish ==
    /\ gen < MaxGen
    /\ gen' = gen + 1
    /\ UNCHANGED <<proj, locs, cache, tmp, link, inst, run, cls, look, batch>>

----------------------------------------------------------------------------
(* SpecCache: the two install_with_uvx on a shared cache root *)

InitCache ==
    /\ proj \in [{MyDir} -> {Absent, Dir("src"), Symlink(Loc("a"))}]
    /\ locs = [l \in {"a"} |-> Absent]
    /\ cache = [k \in CacheKeys |-> NoContent]
    /\ tmp = <<>>
    /\ gen = 0
    /\ link = NoLink
    /\ inst = NoInst
    /\ run = <<>>
    /\ cls = NoCls
    /\ look = NoLook
    /\ batch = NoBatch

NextCache ==
    \/ \E spec \in CacheSpecs, env \in UvxEnvs : PkglinkxInstallWithUvx(spec, env)
    \/ \E spec \in CacheSpecs, env \in UvxEnvs : InstallWithUvx(spec, env)
    \/ Publish

SpecCache == InitCache /\ [][NextCache]_vars

(* Claims about the cache, checked under SpecCache *)

UvxOps == {"pkglinkx.install_with_uvx", "installation.install_with_uvx"}

\* a pinned reference: a package with an explicit version, or a github spec
\* whose version is a commit hash or a semantic-version-like tag
Pinned(spec) ==
    \/ spec.source_type = "package" /\ spec.version # None /\ spec.version # <<>>
    \/ /\ spec.source_type = "github" /\ spec.version # None
       /\ IsCommitHash(spec.version) \/ IsSemverLike(spec.version)

\* a remote reference that is not pinned: a branch, an unpinned package
Moving(spec) == spec.source_type \in {"github", "package"} /\ ~Pinned(spec)

\* C6: once an immutable spec has a cache directory, a later install_with_uvx
\* of that spec returns that cache directory, runs no uvx subprocess and
\* neither removes nor rewrites the directory.
C6_ImmutableCacheReused ==
    (inst.op \in UvxOps /\ Pinned(inst.spec) /\ inst.pre.exists) =>
        /\ inst.result = Ok(CacheDir(cache_dir(inst.spec)))
        /\ ~inst.ev.uvx
        /\ ~inst.ev.removed
        /\ ~inst.cacheChanged
        /\ Cached(Now, inst.spec) = inst.pre

\* C6 witness: github:org/repo@v1.2.3 was resolved again with its cache
\* directory in place
C6_Witness ==
    /\ inst.op = "pkglinkx.install_with_uvx"
    /\ inst.spec = GTag
    /\ inst.pre.exists
    /\ inst.ev.reused
    /\ inst.result = Ok(CacheDir(cache_dir(GTag)))

\* C7: a successful install_with_uvx of a mutable spec whose cache directory
\* already exists has re-invoked uvx and recreated the directory; the stale
\* directory is never returned without a re-fetch, through
\* pkglink.pkglinkx.install_with_uvx as through
\* pkglink.installation.install_with_uvx.
C7_MutableAlwaysRefetched ==
    (/\ inst.op \in UvxOps
     /\ Moving(inst.spec)
     /\ inst.pre.exists
     /\ inst.result.status = "ok") =>
        /\ inst.ev.uvx
        /\ inst.ev.removed
        /\ ~inst.ev.reused
        /\ Cached(Now, inst.spec) = Fetched(inst.spec, inst.gen)

----------------------------------------------------------------------------
(* SpecResolve: resolve_source_path and its fallback installer *)

ResolveSpecs == {GTag, GMain, LocalSpec}
ResolveKeys == {cache_dir(GTag), cache_dir(GMain)}

InitResolve ==
    /\ proj \in [{MyDir} -> {Absent, Dir("src"), Symlink(Loc("a"))}]
    /\ locs \in [{"a"} -> {Absent, Dir("src")}]
    /\ cache = [k \in ResolveKeys |-> NoContent]
    /\ tmp = <<>>
    /\ gen = 0
    /\ link = NoLink
    /\ inst = NoInst
    /\ run = <<>>
    /\ cls = NoCls
    /\ look = NoLook
    /\ batch = NoBatch

NextResolve ==
    \/ \E spec \in ResolveSpecs, module_name \in ModuleNames, env \in ResolveEnvs :
          ResolveSourcePath(spec, module_name, env)
    \/ \E spec \in ResolveSpecs, env \in UvEnvs : InstallWithUv(spec, env)
    \/ Publish

SpecResolve == InitResolve /\ [][NextResolve]_vars

(* Claim about local specs, checked under SpecResolve *)

ResolvedRemote == inst.op = "resolve_source_path" /\ inst.spec.source_type # "local"

\* the positions in the calls of the last resolve_source_path that are calls of fn
CallsOf(fn) == {i \in 1..Len(inst.ev.calls) : inst.ev.calls[i].fn = fn}

\* C11: resolve_source_path calls the primary installer once; it calls the
\* secondary installer (uv pip install --target) once, as its second call, when
\* the primary raised, and not at all when the primary returned; when both
\* raise, its one RuntimeError quotes the messages of both; a failure of
\* find_package_root after a primary installation that returned is raised
\* without a call of the secondary installer.
C11_SingleFallback ==
    ResolvedRemote =>
        /\ CallsOf("install_with_uvx") = {1}
        /\ CallsOf("install_with_uv") \subseteq {2}
        /\ (inst.ev.calls[1].error # "none") <=> (CallsOf("install_with_uv") = {2})
        /\ inst.ev.uv => CallsOf("install_with_uv") = {2}
        /\ Len(inst.ev.calls) <= 3
        /\ (2 \in CallsOf("install_with_uv") /\ inst.ev.calls[2].error # "none") =>
              /\ Len(inst.ev.calls) = 2
              /\ inst.result = BothFailed(inst.ev.calls[1].error, inst.ev.calls[2].error)
              /\ inst.result.causes = <<inst.ev.calls[1].error, inst.ev.calls[2].error>>
        /\ (inst.ev.calls[1].error = "none" /\ inst.result.status = "error") =>
              /\ inst.ev.calls = <<[fn |-> "install_with_uvx", error |-> "none"],
                                   [fn |-> "find_package_root", error |-> "RuntimeError:root"]>>
              /\ inst.result = Err("RuntimeError:root")
              /\ ~inst.ev.uv
              /\ ~inst.tmpChanged

\* C11 witness: both installers failed on github:org/repo@main and the error
\* raised quotes both failures
C11_Witness ==
    /\ ResolvedRemote
    /\ inst.spec = GMain
    /\ inst.result.status = "error"
    /\ inst.result.causes = <<"RuntimeError:uvx", "RuntimeError:uv">>
    /\ inst.ev.uvx
    /\ inst.ev.uv

\* the place p lies inside the cache directory of spec
InsideCache(p, spec) == p.root = "cache" /\ p.key = cache_dir(spec) /\ Len(p.sub) >= 1

\* C12: after every successful resolution of a non-local spec the installed
\* content is in the cache directory of the spec and the returned path lies
\* inside that cache directory, never inside a temporary directory, on the
\* primary path and on the fallback path alike.
C12_ResolvedInsideCache ==
    (ResolvedRemote /\ inst.result.status = "ok") =>
        /\ InsideCache(inst.result.place, inst.spec)
        /\ Cached(Now, inst.spec).exists
        /\ inst.result.place.root # "tmp"

----------------------------------------------------------------------------
(* pkglink/main.py: the pkglink CLI *)

\* the parsed command line (CliArgs)
CliArgs(source, directory, symlink_name, force, dry_run, from_package) ==
    [source |-> source, directory |-> directory, symlink_name |-> symlink_name,
     force |-> force, dry_run |-> dry_run, from_package |-> from_package]

\* how a run ended: the filesystem it left, its status ("skipped", "dry_run",
\* "linked", "copied" or "error"), the exit status of the process, the error
\* reported, the symlink name used by the pre-check, the one written to the
\* dry-run log, the source handed to create_symlink, and the records of the
\* calls made into the resolver and into pkglink/symlinks.py
MainOut(w, status, exit, error, symlink_name, logged_name, source, res, lnk) ==
    [world |-> w, status |-> status, exit |-> exit, error |-> error,
     symlink_name |-> symlink_name, logged_name |-> logged_name, source |-> source,
     res |-> res, lnk |-> lnk]

\* no call was made
NoCall == [called |-> FALSE, out |-> InstOut(World(<<>>, <<>>, <<>>, <<>>), Err("none"), NoEv)]
NoLinkCall == [called |-> FALSE, out |-> Outcome(World(<<>>, <<>>, <<>>, <<>>), "none", FALSE)]

\* LinkOperation.symlink_name / the name of the pre-check
symlink_name_of(args, spec) ==
    IF Truthy(args.symlink_name) THEN args.symlink_name ELSE <<".">> \o spec.name

\* how main ends once create_symlink has returned c
created(c, name, full_source_path, res) ==
    MainOut(c.world,
            CASE c.result = "True" -> "linked"
              [] c.result = "False" -> "copied"
              [] OTHER -> "error",
            IF c.result \in {"True", "False"} THEN 0 ELSE 1,
            IF c.result \in {"True", "False"} THEN "none" ELSE c.result,
            name, NoName, full_source_path, res, [called |-> TRUE, out |-> c])

\* execute_symlink_operation(args, operation) in the filesystem w
execute_symlink_operation(w, force, name, full_source_path, res, sup, parentOk) ==
    IF ~PlaceExists(w, full_source_path)
    THEN MainOut(w, "error", 1, "Source directory not found", name, NoName,
                 full_source_path, res, NoLinkCall)
    ELSE created(create_symlink(w, full_source_path, name, force, sup, parentOk),
                 name, full_source_path, res)

\* the steps of main once resolve_source_path has returned r: build the
\* LinkTarget and the LinkOperation, execute_symlink_operation
resolved(r, args, name, sup, parentOk) ==
    IF r.result.status # "ok"
    THEN MainOut(r.world, "error", 1, r.result.error, name, NoName, NoPlace,
                 [called |-> TRUE, out |-> r], NoLinkCall)
    ELSE IF Strip(args.directory) = <<>>
    THEN MainOut(r.world, "error", 1, "ValidationError:Target directory cannot be empty",
                 name, NoName, NoPlace, [called |-> TRUE, out |-> r], NoLinkCall)
    ELSE execute_symlink_operation(
            r.world, args.force, name,
            Sub(Resolve(r.world, r.result.place, MaxHops), Strip(args.directory)),
            [called |-> TRUE, out |-> r], sup, parentOk)

\* the steps of main after the pre-check and the dry-run return
link_steps(w, g, args, d, env, sup, parentOk) ==
    resolved(resolve_source_path(w, g, d.spec, d.module, env), args,
             symlink_name_of(args, d.spec), sup, parentOk)

\* main without the check of the existing target
main_without_precheck(w, g, args, env, sup, parentOk) ==
    LET d == determine_install_spec_and_module(args)
        name == symlink_name_of(args, d.spec)
    IN  IF ~d.ok
        THEN MainOut(w, "error", 1, d.error, NoName, NoName, NoPlace, NoCall, NoLinkCall)
        ELSE IF args.dry_run
        THEN MainOut(w, "dry_run", 0, "none", name,
                     IF Truthy(args.symlink_name) THEN args.symlink_name
                     ELSE <<".">> \o d.module,
                     NoPlace, NoCall, NoLinkCall)
        ELSE link_steps(w, g, args, d, env, sup, parentOk)

\* main without the return of the dry run
main_dry_run_ignored(w, g, args, env, sup, parentOk) ==
    LET d == determine_install_spec_and_module(args)
        name == symlink_name_of(args, d.spec)
    IN  IF ~d.ok
        THEN MainOut(w, "error", 1, d.error, NoName, NoName, NoPlace, NoCall, NoLinkCall)
        ELSE IF PlaceExists(w, Cwd(name)) /\ ~args.force
        THEN MainOut(w, "skipped", 0, "none", name, NoName, NoPlace, NoCall, NoLinkCall)
        ELSE link_steps(w, g, args, d, env, sup, parentOk)

\* main with an existing target reported as an error
main_existing_target_fails(w, g, args, env, sup, parentOk) ==
    LET d == determine_install_spec_and_module(args)
        name == symlink_name_of(args, d.spec)
    IN  IF ~d.ok
        THEN MainOut(w, "error", 1, d.error, NoName, NoName, NoPlace, NoCall, NoLinkCall)
        ELSE IF PlaceExists(w, Cwd(name)) /\ ~args.force
        THEN MainOut(w, "error", 1, "TargetAlreadyExists", name, NoName, NoPlace, NoCall,
                     NoLinkCall)
        ELSE IF args.dry_run
        THEN MainOut(w, "dry_run", 0, "none", name,
                     IF Truthy(args.symlink_name) THEN args.symlink_name
                     ELSE <<".">> \o d.module,
                     NoPlace, NoCall, NoLinkCall)
        ELSE link_steps(w, g, args, d, env, sup, parentOk)

\* main()
main(w, g, args, env, sup, parentOk) ==
    LET d == determine_install_spec_and_module(args)
        name == symlink_name_of(args, d.spec)
    IN  IF ~d.ok
        THEN MainOut(w, "error", 1, d.error, NoName, NoName, NoPlace, NoCall, NoLinkCall)
        ELSE IF PlaceExists(w, Cwd(name)) /\ ~args.force
        THEN MainOut(w, "skipped", 0, "none", name, NoName, NoPlace, NoCall, NoLinkCall)
        ELSE IF args.dry_run
        THEN MainOut(w, "dry_run", 0, "none", name,
                     IF Truthy(args.symlink_name) THEN args.symlink_name
                     ELSE <<".">> \o d.module,
                     NoPlace, NoCall, NoLinkCall)
        ELSE link_steps(w, g, args, d, env, sup, parentOk)

NoArgs == CliArgs(<<>>, <<>>, None, FALSE, FALSE, None)
NoRun == [op |-> "none", args |-> NoArgs, sup |-> FALSE, status |-> "none", exit |-> 0,
          error |-> "none", symlink_name |-> NoName, logged_name |-> NoName,
          source |-> NoPlace, pre |-> Absent, preExists |-> FALSE,
          projChanged |-> FALSE, locsChanged |-> FALSE, cacheChanged |-> FALSE,
          tmpChanged |-> FALSE, ev |-> NoEv, again |-> FALSE]

\* the entry at a name of the project directory, Absent for a name never used
Occupant(w, name) == IF name \in DOMAIN w.proj THEN w.proj[name] ELSE Absent

\* the record of a run that ended as out; again tells that the run repeats
\* the command line of the run before it, which had created the link
RunRecord(args, sup, out) ==
    [op |-> "main", args |-> args, sup |-> sup, status |-> out.status,
     exit |-> out.exit, error |-> out.error,
     symlink_name |-> out.symlink_name, logged_name |-> out.logged_name,
     source |-> out.source, pre |-> Occupant(Now, out.symlink_name),
     preExists |-> PlaceExists(Now, Cwd(out.symlink_name)),
     projChanged |-> out.world.proj # proj,
     locsChanged |-> out.world.locs # locs,
     cacheChanged |-> out.world.cache # cache,
     tmpChanged |-> out.world.tmp # tmp,
     ev |-> out.res.out.ev,
     again |-> run.op = "main" /\ run.args = args /\ run.status \in {"linked", "copied"}]

\* one run of the pkglink CLI; supports_symlinks() is hasattr(os, 'symlink'),
\* the same in every run on one platform
Main(args, env, sup, parentOk) ==
    /\ run.op = "main" => sup = run.sup
    /\ \E out \in {main(Now, gen, args, env, sup, parentOk)} :
        /\ Len(out.world.tmp) <= MaxTmp
        /\ proj' = out.world.proj
        /\ locs' = out.world.locs
        /\ cache' = out.world.cache
        /\ tmp' = out.world.tmp
        /\ run' = RunRecord(args, sup, out)
        /\ UNCHANGED <<gen, link, inst, cls, look, batch>>

----------------------------------------------------------------------------
(* SpecMain: runs of the pkglink CLI in one project directory *)

GithubMain == GithubPrefix \o Org \o <<"/">> \o Repo \o <<"@">> \o VMain
LocalMyDir == <<".", "/">> \o MyDir
GithubNoRepo == GithubPrefix \o Org

DotRepo == <<".">> \o Repo
DotMyDir == <<".">> \o MyDir
Custom == <<"l", "i", "n", "k", "s">>

MainNames == {MyDir, DotRepo, DotMyDir, Custom}

\* the command lines: pkglink SOURCE, pkglink --symlink-name links SOURCE and
\* pkglink --from PACKAGE MODULE, with and without --force and --dry-run
MainArgs ==
    {CliArgs(source, Resources, None, force, dry_run, None) :
        source \in {GithubMain, LocalMyDir, GithubNoRepo},
        force \in BOOLEAN, dry_run \in BOOLEAN}
    \cup {CliArgs(GithubMain, Resources, Custom, force, FALSE, None) : force \in BOOLEAN}
    \cup {CliArgs(Mod, Resources, None, FALSE, dry_run, GithubMain) : dry_run \in BOOLEAN}

\* what the installers meet during a run: uvx works, only uv works, neither
MainEnvs ==
    {env \in ResolveEnvs : env.uvx = "ok" => env.uv = "ok"}

InitMain ==
    /\ proj \in {f \in [MainNames -> {Absent, Dir("src"), Dir("user"), Symlink(Loc("a"))}] :
                    /\ f[MyDir] \in {Absent, Dir("src")}
                    /\ f[DotRepo] \in {Absent, Dir("user"), Symlink(Loc("a"))}
                    /\ f[DotMyDir] = Absent
                    /\ f[Custom] = Absent}
    /\ locs \in [{"a"} -> {Absent, Dir("a")}]
    /\ proj[DotRepo].kind # "symlink" => locs["a"] = Absent
    /\ cache = [k \in {cache_dir(GMain)} |-> NoContent]
    /\ tmp = <<>>
    /\ gen = 0
    /\ link = NoLink
    /\ inst = NoInst
    /\ run = NoRun
    /\ cls = NoCls
    /\ look = NoLook
    /\ batch = NoBatch

NextMain ==
    \E args \in MainArgs, env \in MainEnvs, sup \in BOOLEAN, parentOk \in {TRUE} :
        Main(args, env, sup, parentOk)

SpecMain == InitMain /\ [][NextMain]_vars

(* Claim about repeated runs, checked under SpecMain *)

----------------------------------------------------------------------------
(* pkglink/config.py: the conflict detector of build_contexts *)

\* what _ensure_unique_link_targets reads of a PkglinkContext: the entry
\* label, install_spec.project_name, resolved_symlink_name, install_spec and
\* inside_pkglink
Context(entry_name, project_name, symlink_name, install_spec, inside_pkglink) ==
    [entry_name |-> entry_name, project_name |-> project_name,
     symlink_name |-> symlink_name, install_spec |-> install_spec,
     inside_pkglink |-> inside_pkglink]

\* _entry_label(context)
entry_label(context) == context.entry_name

\* a dict is kept as the sequence of its items in insertion order

\* the position of key in the items, 0 if it is no key
KeyIndex(items, key) ==
    IF \E i \in 1..Len(items) : items[i].key = key
    THEN CHOOSE i \in 1..Len(items) : items[i].key = key
    ELSE 0

\* registry.setdefault(key, []).append(member)
Registered(items, key, member) ==
    IF KeyIndex(items, key) = 0
    THEN Append(items, [key |-> key, members |-> <<member>>])
    ELSE [items EXCEPT ![KeyIndex(items, key)].members = Append(@, member)]

MoreThanOne(item) == Len(item.members) > 1

\* the registry of _collect_duplicates after the first n pairs
RECURSIVE Registry(_, _)
Registry(pairs, n) ==
    IF n = 0
    THEN <<>>
    ELSE IF ~Truthy(pairs[n].value)
         THEN Registry(pairs, n - 1)
         ELSE Registered(Registry(pairs, n - 1), pairs[n].value, pairs[n].entry_name)

\* _collect_duplicates(pairs)
collect_duplicates(pairs) == SelectSeq(Registry(pairs, Len(pairs)), MoreThanOne)

\* _group_contexts_by_project(ctxs), after the first n contexts
RECURSIVE group_contexts_by_project(_, _)
group_contexts_by_project(ctxs, n) ==
    IF n = 0
    THEN <<>>
    ELSE Registered(group_contexts_by_project(ctxs, n - 1), ctxs[n].project_name, ctxs[n])

\* a check of the project groups that disregards where the members install
project_conflict_by_spec_only(group) ==
    /\ Len(group) > 1
    /\ \E i \in 2..Len(group) : group[i].install_spec # group[1].install_spec

\* the test of _find_project_duplicates on one group: conflicting unless all
\* members have the install spec of the first and at most one installs
\* inside .pkglink
project_conflict(group) ==
    /\ Len(group) > 1
    /\ LET same_install_spec ==
               \A i \in 2..Len(group) : group[i].install_spec = group[1].install_spec
           inside_count == Cardinality({i \in 1..Len(group) : group[i].inside_pkglink})
       IN  ~(same_install_spec /\ inside_count <= 1)

ConflictingGroup(item) == project_conflict(item.members)

\* _find_project_duplicates(groups)
find_project_duplicates(groups) ==
    LET conflicting == SelectSeq(groups, ConflictingGroup)
    IN  [i \in 1..Len(conflicting) |->
            [key |-> conflicting[i].key,
             members |-> [j \in 1..Len(conflicting[i].members) |->
                            entry_label(conflicting[i].members[j])]]]

\* the lines "  '{name}' used by: {entry_list}" of one section
UsedBy(section, conflicts) ==
    [i \in 1..Len(conflicts) |->
        [section |-> section, name |-> conflicts[i].key, entries |-> conflicts[i].members]]

Line(text) == [section |-> text, name |-> NoName, entries |-> <<>>]

\* _format_conflict_message(project_conflicts, symlink_conflicts): the lines
\* of the message
format_conflict_message(project_conflicts, symlink_conflicts) ==
    <<Line("duplicate link targets detected:")>>
    \o (IF Len(project_conflicts) > 0
        THEN <<Line("project_name conflicts:")>> \o UsedBy("project_name", project_conflicts)
        ELSE <<>>)
    \o (IF Len(symlink_conflicts) > 0
        THEN <<Line("symlink_name conflicts:")>> \o UsedBy("symlink_name", symlink_conflicts)
        ELSE <<>>)
    \o <<Line("Each project_name and symlink_name must be unique across links.")>>

Accepted == [ok |-> TRUE, error |-> "none", message |-> <<>>]
ConfigError(message) == [ok |-> FALSE, error |-> "PkglinkConfigError", message |-> message]

\* a detector that looks at the project names only
ensure_unique_projects_only(contexts) ==
    LET project_duplicates ==
            find_project_duplicates(group_contexts_by_project(contexts, Len(contexts)))
    IN  IF Len(project_duplicates) = 0
        THEN Accepted
        ELSE ConfigError(format_conflict_message(project_duplicates, <<>>))

\* a detector that raises on the first conflict it finds
ensure_unique_first_conflict(contexts) ==
    LET project_duplicates ==
            find_project_duplicates(group_contexts_by_project(contexts, Len(contexts)))
        symlink_duplicates ==
            collect_duplicates([i \in 1..Len(contexts) |->
                [entry_name |-> entry_label(contexts[i]), value |-> contexts[i].symlink_name]])
    IN  IF Len(project_duplicates) > 0
        THEN ConfigError(format_conflict_message(SubSeq(project_duplicates, 1, 1), <<>>))
        ELSE IF Len(symlink_duplicates) > 0
        THEN ConfigError(format_conflict_message(<<>>, SubSeq(symlink_duplicates, 1, 1)))
        ELSE Accepted

\* _ensure_unique_link_targets(contexts)
ensure_unique_link_targets(contexts) ==
    LET project_duplicates ==
            find_project_duplicates(group_contexts_by_project(contexts, Len(contexts)))
        symlink_duplicates ==
            collect_duplicates([i \in 1..Len(contexts) |->
                [entry_name |-> entry_label(contexts[i]), value |-> contexts[i].symlink_name]])
    IN  IF Len(project_duplicates) = 0 /\ Len(symlink_duplicates) = 0
        THEN Accepted
        ELSE ConfigError(format_conflict_message(project_duplicates, symlink_duplicates))

\* build_contexts(config): the contexts of the links, checked before they are
\* returned
build_contexts(contexts) ==
    LET checked == ensure_unique_link_targets(contexts)
    IN  [ok |-> checked.ok, error |-> checked.error, message |-> checked.message,
         contexts |-> IF checked.ok THEN contexts ELSE <<>>]

----------------------------------------------------------------------------
(* SpecConfig: build_contexts on the configurations of up to MaxLinks links *)

\* most links in a configuration
MaxLinks == 4

\* the keys of the links mapping
EntryNames == [i \in 1..(MaxLinks + 1) |-> <<"e", ToString(i)>>]

ProjA == <<"p", "a">>
ProjB == <<"p", "b">>
ProjC == <<"p", "c">>
LinkA == <<".", "s", "a">>
LinkB == <<".", "s", "b">>
LinkC == <<".", "s", "c">>

\* what a link may resolve to: project name, symlink name, install spec and
\* whether it installs inside .pkglink
Shapes ==
    {<<ProjA, LinkA, GTag, TRUE>>, <<ProjA, LinkB, GTag, FALSE>>, <<ProjA, LinkC, GMain, FALSE>>,
     <<ProjB, LinkB, GMain, TRUE>>, <<ProjB, LinkC, GMain, FALSE>>,
     <<ProjC, LinkA, PPlain, FALSE>>, <<ProjC, LinkC, GTag, TRUE>>}

\* the configurations: the contexts of their links, in the order of the file
Configs ==
    UNION {{[i \in 1..n |-> Context(EntryNames[i], f[i][1], f[i][2], f[i][3], f[i][4])] :
                f \in [1..n -> Shapes]} : n \in 1..MaxLinks}

\* a call of build_contexts (through load_contexts) on the configuration
BuildContexts ==
    /\ batch' = [op |-> "build_contexts", config |-> batch.config,
                 result |-> build_contexts(batch.config)]
    /\ UNCHANGED <<proj, locs, cache, tmp, gen, link, inst, run, cls, look>>

InitConfig ==
    /\ proj = <<>>
    /\ locs = <<>>
    /\ cache = <<>>
    /\ tmp = <<>>
    /\ gen = 0
    /\ link = NoLink
    /\ inst = <<>>
    /\ run = <<>>
    /\ cls = <<>>
    /\ look = NoLook
    /\ batch \in {[op |-> "none", config |-> c, result |-> build_contexts(<<>>)] : c \in Configs}

NextConfig == BuildContexts

SpecConfig == InitConfig /\ [][NextConfig]_vars

(* Claims about the conflict detector, checked under SpecConfig *)

Built == batch.op = "build_contexts"

\* the labels of the entries of the configuration with this symlink name /
\* this project name, in the order of the file
LabelsWith(field, value) ==
    LET Has(c) == c[field] = value
        members == SelectSeq(batch.config, Has)
    IN  [i \in 1..Len(members) |-> members[i].entry_name]

\* the lines of the message in a section
Reported(section) ==
    {[name |-> batch.result.message[i].name, entries |-> batch.result.message[i].entries] :
        i \in {j \in 1..Len(batch.result.message) : batch.result.message[j].section = section}}

\* C16: build_contexts rejects every configuration in which two or more
\* entries resolve to the same symlink_name, and reports each such group as a
\* symlink_name conflict listing all its entry labels, whatever the sources,
\* project names or inside_pkglink flags of the entries.
C16_SymlinkNamesUnique ==
    Built =>
        \A i, j \in 1..Len(batch.config) :
            (i # j /\ batch.config[i].symlink_name = batch.config[j].symlink_name) =>
                /\ ~batch.result.ok
                /\ batch.result.error = "PkglinkConfigError"
                /\ [name |-> batch.config[i].symlink_name,
                    entries |-> LabelsWith("symlink_name", batch.config[i].symlink_name)]
                        \in Reported("symlink_name")

\* C16 witness: two links of different projects with one symlink name were
\* rejected
C16_Witness ==
    /\ Built
    /\ Len(batch.config) = 2
    /\ batch.config[1].symlink_name = batch.config[2].symlink_name
    /\ batch.config[1].project_name # batch.config[2].project_name
    /\ ~batch.result.ok
    /\ Reported("project_name") = {}

\* the entries of the configuration with this project name
Group(project_name) ==
    {i \in 1..Len(batch.config) : batch.config[i].project_name = project_name}

\* a group may share its project: one install spec, at most one member inside
MayShare(G) ==
    /\ \A i, j \in G : batch.config[i].install_spec = batch.config[j].install_spec
    /\ Cardinality({i \in G : batch.config[i].inside_pkglink}) <= 1

\* C17: a group of entries sharing one project_name is accepted if and only
\* if every member has an identical install spec and at most one member
\* installs inside .pkglink; every other group of more than one entry is
\* reported as a project_name conflict naming all entry labels of the group.
C17_ProjectGroups ==
    Built =>
        \A i \in 1..Len(batch.config) :
            LET name == batch.config[i].project_name
                G == Group(name)
                reported == \E r \in Reported("project_name") : r.name = name
            IN  /\ reported <=> (Cardinality(G) > 1 /\ ~MayShare(G))
                /\ reported =>
                      /\ ~batch.result.ok
                      /\ [name |-> name, entries |-> LabelsWith("project_name", name)]
                            \in Reported("project_name")

\* C17 witness: two links that share a project and an install spec, one of
\* them inside .pkglink, were accepted
C17_Witness ==
    /\ Built
    /\ Len(batch.config) = 2
    /\ batch.config[1].project_name = batch.config[2].project_name
    /\ batch.config[1].inside_pkglink
    /\ batch.result.ok
    /\ batch.result.contexts = batch.config

\* the project names and the symlink names that conflict in the configuration
ConflictingProjects ==
    {batch.config[i].project_name : i \in 1..Len(batch.config)} \cap
    {name \in {ProjA, ProjB, ProjC} : Cardinality(Group(name)) > 1 /\ ~MayShare(Group(name))}
ConflictingLinks ==
    {name \in {LinkA, LinkB, LinkC} :
        Cardinality({i \in 1..Len(batch.config) : batch.config[i].symlink_name = name}) > 1}

\* C18: conflict detection reports everything in one pass: one
\* PkglinkConfigError is raised whose message names every conflicting
\* project_name, every conflicting symlink_name and every entry label
\* involved, and nothing else; detection does not stop at the first conflict.
C18_AllConflictsReported ==
    Built =>
        /\ batch.result.ok <=> (ConflictingProjects = {} /\ ConflictingLinks = {})
        /\ {r.name : r \in Reported("project_name")} = ConflictingProjects
        /\ {r.name : r \in Reported("symlink_name")} = ConflictingLinks
        /\ \A r \in Reported("project_name") : r.entries = LabelsWith("project_name", r.name)
        /\ \A r \in Reported("symlink_name") : r.entries = LabelsWith("symlink_name", r.name)
        /\ ~batch.result.ok => batch.result.error = "PkglinkConfigError"

\* C18 witness: two conflicting project names and two conflicting symlink
\* names of four links were reported in one error
C18_Witness ==
    /\ Built
    /\ Len(batch.config) = 4
    /\ ~batch.result.ok
    /\ Cardinality(Reported("project_name")) = 2
    /\ Cardinality(Reported("symlink_name")) = 2

----------------------------------------------------------------------------
(* pkglink/cli/pkglink_batch.py: the pkglink-batch CLI *)

\* a boolean option of the configuration file: not given, true or false
Options == {"None", "True", "False"}

\* _resolve_bool of the candidates, with default False: the first candidate
\* that is given decides
resolve_bool(candidates) ==
    IF \A k \in 1..Len(candidates) : candidates[k] = "None"
    THEN FALSE
    ELSE LET first == CHOOSE k \in 1..Len(candidates) :
                        /\ candidates[k] # "None"
                        /\ \A j \in 1..(k - 1) : candidates[j] = "None"
         IN  candidates[first] = "True"

\* the dry_run of a target: _resolve_bool(entry.dry_run, defaults.dry_run,
\* global_dry_run)
entry_dry_run(entry_option, defaults_option, global_dry_run) ==
    resolve_bool(<<entry_option, defaults_option, IF global_dry_run THEN "True" ELSE "False">>)

\* load_batch_contexts(config_path, global_dry_run=...) of
\* pkglink/batch_config.py: the contexts of the targets, in the order of the
\* file, each with the dry_run of its cli_args; a configuration without
\* targets is refused
load_batch_contexts(config, settings, global_dry_run) ==
    IF Len(config) = 0
    THEN [ok |-> FALSE, error |-> "PkglinkConfigError", contexts |-> <<>>, dry_run |-> <<>>]
    ELSE [ok |-> TRUE, error |-> "none", contexts |-> config,
          dry_run |-> [k \in 1..Len(config) |->
                          entry_dry_run(settings.targets[k], settings.defaults, global_dry_run)]]

NoPlan == [source |-> NoPlace, target |-> NoName]

\* BatchEntry(context=context); dry_run is context.cli_args.dry_run. What
\* the run did with the entry: done when its turn of the execution phase
\* ended, executed when execute_plan was called on its plan, setup when
\* run_post_install_from_plan was called on it
BatchEntry(context, dry_run) ==
    [context |-> context, dry_run |-> dry_run, cache_dir |-> NoPlace, plan |-> NoPlan,
     done |-> FALSE, executed |-> FALSE, setup |-> FALSE]

\* generate_execution_plan(context, cache_dir=...): the link to create, from
\* the resources directory of the installed module to the symlink name
generate_execution_plan(context, install_dir) ==
    [source |-> Sub(Sub(install_dir, context.install_spec.name), Resources),
     target |-> context.symlink_name]

\* generate_execution_plan fails when the directory to link is not in the
\* installation
plan_fails(w, plan) == ~PlaceIsDir(w, plan.source)

\* execute_plan(plan): creates the link of the plan
execute_plan(w, plan) == create_symlink(w, plan.source, plan.target, FALSE, TRUE, TRUE)

\* a main that takes each entry through download, planning and execution
\* before it turns to the next entry
next_step_per_entry(phase, i, n) ==
    CASE phase = "start" -> IF n = 0 THEN [pc |-> "done", i |-> 0] ELSE [pc |-> "download", i |-> 1]
      [] phase = "download" -> [pc |-> "plan", i |-> i]
      [] phase = "plan" -> [pc |-> "execute", i |-> i]
      [] OTHER -> IF i < n THEN [pc |-> "download", i |-> i + 1] ELSE [pc |-> "done", i |-> 0]

\* what main runs after the step of the phase on entry i of n: the loop of
\* the phase goes on to the next entry, and the next phase starts on the
\* first entry once the loop is through
next_step(phase, i, n) ==
    CASE i < n -> [pc |-> phase, i |-> i + 1]
      [] phase = "start" -> IF n = 0 THEN [pc |-> "done", i |-> 0] ELSE [pc |-> "download", i |-> 1]
      [] phase = "download" -> [pc |-> "plan", i |-> 1]
      [] phase = "plan" -> [pc |-> "execute", i |-> 1]
      [] OTHER -> [pc |-> "done", i |-> 0]

\* the run goes on with the step after (phase, i)
Advance(b, phase) ==
    [b EXCEPT !.pc = next_step(phase, b.i, Len(b.entries)).pc,
              !.i = next_step(phase, b.i, Len(b.entries)).i]

\* a main that goes on with the next step after an entry failed
Skipped(b, error) ==
    [b EXCEPT !.pc = next_step(b.pc, b.i, Len(b.entries)).pc,
              !.i = next_step(b.pc, b.i, Len(b.entries)).i,
              !.error = error,
              !.failed = IF b.failed = "none" THEN b.pc ELSE b.failed]

\* the exception leaves the phase and main: handle_cli_exception(exc) ends
\* the run with the error; failed is the phase that raised
Stopped(b, error) == [b EXCEPT !.pc = "error", !.error = error, !.failed = b.pc]

\* main: parse the arguments, load the contexts, wrap them in entries
BatchLoad ==
    /\ batch.pc = "start"
    /\ \E loaded \in {load_batch_contexts(batch.config, batch.settings, batch.dry_run)} :
        batch' = IF ~loaded.ok
                 THEN Stopped([batch EXCEPT !.op = "pkglink_batch"], loaded.error)
                 ELSE LET b == [batch EXCEPT
                                    !.op = "pkglink_batch",
                                    !.entries = [k \in 1..Len(loaded.contexts) |->
                                                    BatchEntry(loaded.contexts[k],
                                                               loaded.dry_run[k])]]
                      IN  [b EXCEPT !.pc = next_step("start", Len(b.entries), Len(b.entries)).pc,
                                    !.i = next_step("start", Len(b.entries), Len(b.entries)).i]
    /\ UNCHANGED <<proj, locs, cache, tmp, gen, link, inst, run, cls, look>>

\* one turn of the loop of _download_phase: install_with_uvx(context.install_spec)
BatchDownload(env) ==
    /\ batch.pc = "download"
    /\ \E out \in {i_install_with_uvx(Now, gen, batch.entries[batch.i].context.install_spec, env)} :
        /\ cache' = out.world.cache
        /\ batch' = LET b == [batch EXCEPT !.installs = @ + (IF out.ev.uvx THEN 1 ELSE 0)]
                    IN  IF out.result.status # "ok"
                        THEN Stopped(b, out.result.error)
                        ELSE Advance([b EXCEPT !.entries[batch.i].cache_dir = out.result.place],
                                     "download")
    /\ UNCHANGED <<proj, locs, tmp, gen, link, inst, run, cls, look>>

\* one turn of the loop of _planning_phase
BatchPlan ==
    /\ batch.pc = "plan"
    /\ \E plan \in {generate_execution_plan(batch.entries[batch.i].context,
                                             batch.entries[batch.i].cache_dir)} :
        batch' = IF plan_fails(Now, plan)
                 THEN Stopped(batch, "RuntimeError:plan")
                 ELSE Advance([batch EXCEPT !.entries[batch.i].plan = plan], "plan")
    /\ UNCHANGED <<proj, locs, cache, tmp, gen, link, inst, run, cls, look>>

\* one turn of the loop of _execution_phase
BatchExecute ==
    /\ batch.pc = "execute"
    /\ IF batch.entries[batch.i].plan = NoPlan
       THEN /\ batch' = Stopped(batch, "RuntimeError:Execution plan missing")
            /\ UNCHANGED <<proj, locs>>
       ELSE IF batch.entries[batch.i].dry_run
       THEN /\ batch' = Advance([batch EXCEPT !.entries[batch.i].done = TRUE], "execute")
            /\ UNCHANGED <<proj, locs>>
       ELSE \E out \in {execute_plan(Now, batch.entries[batch.i].plan)} :
            /\ proj' = out.world.proj
            /\ locs' = out.world.locs
            /\ batch' = IF out.result # "True"
                        THEN Stopped([batch EXCEPT !.entries[batch.i].executed = TRUE],
                                     out.result)
                        ELSE Advance([batch EXCEPT !.entries[batch.i].done = TRUE,
                                                   !.entries[batch.i].executed = TRUE,
                                                   !.entries[batch.i].setup = TRUE],
                                     "execute")
    /\ UNCHANGED <<cache, tmp, gen, link, inst, run, cls, look>>

----------------------------------------------------------------------------
(* SpecBatch: runs of pkglink-batch on the configurations of up to         *)
(* MaxTargets targets                                                      *)

\* most targets in a batch configuration
MaxTargets == 2

BatchConfigs ==
    UNION {{[i \in 1..n |-> Context(EntryNames[i], f[i][1], f[i][2], f[i][3], f[i][4])] :
                f \in [1..n -> Shapes]} : n \in 0..MaxTargets}

\* what the uvx command does during a download
BatchEnvs == {env \in UvxEnvs : env.rmtree /\ env.uvx # "FileNotFoundError"}

\* the options of a configuration file that sets none
NoSettings(config) == [defaults |-> "None", targets |-> [k \in 1..Len(config) |-> "None"]]

\* a run of pkglink-batch that has not started
BatchRun(config, settings, dry_run) ==
    [op |-> "none", config |-> config, settings |-> settings, dry_run |-> dry_run,
     pc |-> "start", i |-> 0, entries |-> <<>>, installs |-> 0, error |-> "none",
     failed |-> "none"]

InitBatch ==
    /\ proj = [n \in {LinkA, LinkB, LinkC} |-> Absent]
    /\ locs = [l \in {"a"} |-> Absent]
    /\ cache = [k \in CacheKeys |-> NoContent]
    /\ tmp = <<>>
    /\ gen \in 0..MaxGen
    /\ link = NoLink
    /\ inst = NoInst
    /\ run = NoRun
    /\ cls = NoCls
    /\ look = NoLook
    /\ batch \in {BatchRun(c, NoSettings(c), d) : c \in BatchConfigs, d \in BOOLEAN}

NextBatch ==
    \/ BatchLoad
    \/ \E env \in BatchEnvs : BatchDownload(env)
    \/ BatchPlan
    \/ BatchExecute

SpecBatch == InitBatch /\ [][NextBatch]_vars

(* Claims about batch mode, checked under SpecBatch *)

\* C19: in batch mode conflict validation completes before any download,
\* planning or execution step: a run of pkglink-batch on a configuration with
\* a project_name or symlink_name conflict invokes no installer and changes
\* nothing in the cache or in the project directory.
C19_ConflictsStopBatch ==
    (batch.op = "pkglink_batch" /\ ~ensure_unique_link_targets(batch.config).ok) =>
        /\ batch.installs = 0
        /\ \A k \in DOMAIN cache : ~cache[k].exists
        /\ \A n \in DOMAIN proj : proj[n] = Absent
        /\ \A k \in 1..Len(batch.entries) :
              /\ batch.entries[k].cache_dir = NoPlace
              /\ batch.entries[k].plan = NoPlan
              /\ ~batch.entries[k].done

\* C20: batch mode runs three phases over the whole batch in strict order:
\* no entry is planned before every entry has been downloaded, and no entry
\* is executed before every entry has been planned.
C20_PhasesInOrder ==
    batch.op = "pkglink_batch" =>
        \A j, k \in 1..Len(batch.entries) :
            /\ batch.entries[j].plan # NoPlan => batch.entries[k].cache_dir # NoPlace
            /\ batch.entries[j].done => batch.entries[k].plan # NoPlan
            /\ batch.pc = "plan" => batch.entries[k].cache_dir # NoPlace
            /\ batch.pc = "execute" => batch.entries[k].plan # NoPlan

\* C20 witness: the first of two entries is planned while the second, already
\* downloaded, is not planned yet
C20_Witness ==
    /\ batch.op = "pkglink_batch"
    /\ Len(batch.entries) = 2
    /\ batch.pc = "plan"
    /\ batch.i = 2
    /\ batch.entries[1].plan # NoPlan
    /\ batch.entries[2].plan = NoPlan
    /\ batch.entries[2].cache_dir # NoPlace

\* C21: if an entry fails in a phase, the next phase starts for no entry of
\* the batch: after a download failure no entry has a plan and none is
\* executed, the entries that were downloaded included, and after a planning
\* failure no entry is executed.
C21_FailureStopsNextPhase ==
    batch.op = "pkglink_batch" =>
        /\ batch.failed = "download" =>
              \A k \in 1..Len(batch.entries) : batch.entries[k].plan = NoPlan
        /\ batch.failed \in {"download", "plan"} =>
              /\ \A k \in 1..Len(batch.entries) :
                    ~batch.entries[k].executed /\ ~batch.entries[k].done
              /\ \A n \in DOMAIN proj : proj[n] = Absent

\* C21 witness: the download of the second entry failed after the first
\* entry was downloaded
C21_Witness ==
    /\ batch.op = "pkglink_batch"
    /\ batch.failed = "download"
    /\ batch.pc = "error"
    /\ Len(batch.entries) = 2
    /\ batch.entries[1].cache_dir # NoPlace
    /\ batch.entries[2].cache_dir = NoPlace

\* a planning failure of the second entry after the first entry was planned
PlanningFailed ==
    /\ batch.op = "pkglink_batch"
    /\ batch.failed = "plan"
    /\ Len(batch.entries) = 2
    /\ batch.entries[1].plan # NoPlan

----------------------------------------------------------------------------
(* SpecParse: parse_source on bounded source strings, followed by          *)
(* build_uv_install_spec and parse_source on its result                    *)

\* longest generated source string without the github: prefix
MaxSrcLen == 4

\* longest generated string after the github: prefix
MaxTailLen == 5

SrcAlphabet == {"a", "/", "@", " ", ".", "~"}
TailAlphabet == {"a", "/", "@", " "}

GithubTag == GithubPrefix \o Org \o <<"/">> \o Repo \o <<"@">> \o VTag

\* C:\d\n, a path with a drive letter
WindowsPath == <<"C", ":", "\\", "d", "\\", "n">>

\* sources of the test suite that the generated strings do not hold
TestSources ==
    {GithubMain, GithubTag, GithubNoRepo, WindowsPath, Requests,
     Requests \o <<"@">> \o <<"1", ".", "0">>,
     <<".", "/">> \o MyDir \o <<"/">> \o Repo,
     <<"~", "/">> \o MyDir \o <<"/">> \o Repo,
     <<"a", "\n">>, GithubPrefix \o <<"a", "/", "a", "\n">>}

ParseSources ==
    StringsUpTo(SrcAlphabet, MaxSrcLen)
    \cup {GithubPrefix \o tail : tail \in StringsUpTo(TailAlphabet, MaxTailLen)}
    \cup TestSources

NoInstall == [ok |-> FALSE, str |-> <<>>]

\* build_uv_install_spec on the spec that parse_source returned
Normalized(out) == IF out.ok THEN build_uv_install_spec(out.spec) ELSE NoInstall

\* parse_source on the install string of the spec that parse_source returned
Reparsed(out) ==
    IF Normalized(out).ok THEN parse_source(Normalized(out).str) ELSE Failed("none")

\* a call of parse_source on the source at hand, followed by the round trip
ParseSource ==
    /\ \E out \in {parse_source(cls.source)} :
        cls' = [op |-> "parse_source", source |-> cls.source, out |-> out,
                install |-> Normalized(out), again |-> Reparsed(out)]
    /\ UNCHANGED <<proj, locs, cache, tmp, gen, link, inst, run, look, batch>>

InitParse ==
    /\ proj = <<>>
    /\ locs = <<>>
    /\ cache = <<>>
    /\ tmp = <<>>
    /\ gen = 0
    /\ link = NoLink
    /\ inst = <<>>
    /\ run = <<>>
    /\ cls \in {[op |-> "none", source |-> source, out |-> Failed("none"),
                  install |-> NoInstall, again |-> Failed("none")] :
                    source \in ParseSources}
    /\ look = NoLook
    /\ batch = NoBatch

NextParse == ParseSource

SpecParse == InitParse /\ [][NextParse]_vars

(* Claims about the parser, checked under SpecParse *)

ParsedSource == cls.op = "parse_source"

\* C22: parse_source rejects every malformed source string with the single
\* error kind 'Invalid source format': whatever the input, no other
\* exception leaves parse_source.
C22_SingleErrorKind ==
    (ParsedSource /\ ~cls.out.ok) => cls.out.error = "ValueError:Invalid source format"

\* a drive-letter prefix: C:\ or C:/
DriveLetter(source) ==
    /\ Len(source) >= 3
    /\ \E i \in 1..Len(UpperCase) : source[1] \in {UpperCase[i], LowerCase[i]}
    /\ source[2] = ":"
    /\ source[3] \in {"\\", "/"}

\* the strings that name a local path
LocalForm(source) ==
    \/ StartsWith(source, <<".", "/">>)
    \/ StartsWith(source, <<"/">>)
    \/ StartsWith(source, <<"~">>)
    \/ DriveLetter(source)

\* the source with '/' for every backslash
Slashed(source) == [i \in 1..Len(source) |-> IF source[i] = "\\" THEN "/" ELSE source[i]]

\* the final component of the path the source names
FinalComponent(source) ==
    IF DriveLetter(source)
    THEN PathName(Components(Slashed(source)))
    ELSE PathName(expanduser(source).parts)

\* C23: parse_source classifies as local, with the final path component as
\* name and without version and org, every string that begins with './', '/'
\* or '~' and every path with a drive letter; only strings that are neither
\* github: nor local are classified as package.
C23_LocalClassified ==
    ParsedSource =>
        /\ LocalForm(cls.source) =>
              /\ cls.out.ok
              /\ cls.out.spec = SourceSpec("local", FinalComponent(cls.source), None, None)
        /\ (cls.out.ok /\ cls.out.spec.source_type = "package") =>
              (~StartsWith(cls.source, GithubPrefix) /\ ~LocalForm(cls.source))

\* the source is a github:org/name@version string with org, name and version
\* that parse_source accepted
ValidGithubVersion ==
    /\ ParsedSource
    /\ StartsWith(cls.source, GithubPrefix)
    /\ cls.out.ok
    /\ Truthy(cls.out.spec.version)

\* C24: for every valid github:org/name@version string, the install string
\* that build_uv_install_spec builds from the parsed spec parses again to the
\* same kind, name, org and version.
C24_RoundTrip ==
    ValidGithubVersion => (cls.again.ok /\ cls.again.spec = cls.out.spec)

----------------------------------------------------------------------------
(* SpecSource: the constructor of SourceSpec on bounded arguments *)

\* longest generated name
MaxNameLen == 2

SourceTypes == {"github", "package", "local"}

\* the arguments of a construction
SourceArgs ==
    [source_type : SourceTypes, name : StringsUpTo({"a", " "}, MaxNameLen),
     version : {None, <<"1">>}, org : {None, Org}]

\* a call of SourceSpec(source_type=..., name=..., version=..., org=...) on
\* the arguments at hand
ConstructSourceSpec ==
    /\ cls' = [op |-> "SourceSpec", args |-> cls.args,
               out |-> NewSourceSpec(cls.args.source_type, cls.args.name,
                                     cls.args.version, cls.args.org)]
    /\ UNCHANGED <<proj, locs, cache, tmp, gen, link, inst, run, look, batch>>

InitSource ==
    /\ proj = <<>>
    /\ locs = <<>>
    /\ cache = <<>>
    /\ tmp = <<>>
    /\ gen = 0
    /\ link = NoLink
    /\ inst = <<>>
    /\ run = <<>>
    /\ cls \in {[op |-> "none", args |-> args, out |-> Failed("none")] : args \in SourceArgs}
    /\ look = NoLook
    /\ batch = NoBatch

NextSource == ConstructSourceSpec

SpecSource == InitSource /\ [][NextSource]_vars

(* Claim about the data model, checked under SpecSource *)

\* C25: every SourceSpec that can be constructed has a name that is not
\* empty after trimming, an org exactly when its kind is github, and neither
\* version nor org when its kind is local; a construction that would violate
\* one of these is rejected.
C25_SourceSpecInvariants ==
    (cls.op = "SourceSpec" /\ cls.out.ok) =>
        /\ Strip(cls.out.spec.name) # <<>>
        /\ Truthy(cls.out.spec.org) <=> cls.out.spec.source_type = "github"
        /\ cls.out.spec.source_type = "local" =>
              (cls.out.spec.version = None /\ cls.out.spec.org = None)

----------------------------------------------------------------------------
(* SpecTarget: the constructor of LinkTarget and                           *)
(* LinkOperation.full_source_path on bounded directories                   *)

\* LinkTarget(source_path=..., target_directory=..., symlink_name=...) with
\* its validator of target_directory: stripped, and rejected when nothing is
\* left; source_path is an absolute path, kept as its components
LinkTarget(source_path, target_directory, symlink_name) ==
    IF Strip(target_directory) = <<>>
    THEN [ok |-> FALSE, error |-> "ValidationError:Target directory cannot be empty",
          source_path |-> <<>>, target_directory |-> <<>>, symlink_name |-> None]
    ELSE [ok |-> TRUE, error |-> "none", source_path |-> source_path,
          target_directory |-> Strip(target_directory), symlink_name |-> symlink_name]

\* Path.is_absolute() of a directory string
IsAbsolute(directory) == StartsWith(directory, <<"/">>)

\* LinkOperation.full_source_path: source_path / target_directory, where
\* joining an absolute path discards what is on the left
full_source_path(target) ==
    IF IsAbsolute(target.target_directory)
    THEN Components(target.target_directory)
    ELSE target.source_path \o Components(target.target_directory)

\* longest generated directory string
MaxDirLen == 3

Directories == StringsUpTo({"a", "/", " ", "."}, MaxDirLen) \cup {Resources}

\* the package root that resolve_source_path returned
PackageDir == <<<<"c", "a", "c", "h", "e">>, Repo>>

\* a construction of the LinkTarget and the LinkOperation for the directory
\* at hand
ConstructLinkTarget ==
    /\ \E target \in {LinkTarget(PackageDir, cls.directory, None)} :
        cls' = [op |-> "LinkTarget", directory |-> cls.directory, target |-> target,
                full_source_path |-> IF target.ok THEN full_source_path(target) ELSE <<>>]
    /\ UNCHANGED <<proj, locs, cache, tmp, gen, link, inst, run, look, batch>>

InitTarget ==
    /\ proj = <<>>
    /\ locs = <<>>
    /\ cache = <<>>
    /\ tmp = <<>>
    /\ gen = 0
    /\ link = NoLink
    /\ inst = <<>>
    /\ run = <<>>
    /\ cls \in {[op |-> "none", directory |-> directory,
                  target |-> LinkTarget(<<>>, <<>>, None), full_source_path |-> <<>>] :
                    directory \in Directories}
    /\ look = NoLook
    /\ batch = NoBatch

NextTarget == ConstructLinkTarget

SpecTarget == InitTarget /\ [][NextTarget]_vars

(* Claim about the link target, checked under SpecTarget *)

\* C26: a LinkTarget never holds an absolute target_directory, its
\* construction with one is rejected, so that full_source_path is always a
\* path below source_path.
C26_RelativeTargetDirectory ==
    (cls.op = "LinkTarget" /\ cls.target.ok) =>
        /\ ~IsAbsolute(cls.target.target_directory)
        /\ StartsWith(cls.full_source_path, cls.target.source_path)

----------------------------------------------------------------------------
(* Claim about the creation mode, checked under SpecLink *)

\* the call put a new symlink to the source at the target
SymlinkCreated ==
    /\ proj[link.target] = Symlink(link.source)
    /\ link.pre.kind = "absent" \/ link.removed

\* the call put a copy of the source at the target: a directory for a
\* directory, a file for a file, with the content of the source
CopyMade ==
    /\ link.pre.kind = "absent" \/ link.removed
    /\ proj[link.target] = IF PlaceIsDir(Now, link.source)
                           THEN Dir(PlaceData(Now, link.source))
                           ELSE File(PlaceData(Now, link.source))

\* the call was made on a platform as it can be: where symlinks are not
\* supported, no symlink occupies the target
OnPlatform == link.op = "create_symlink" /\ (link.sup \/ link.pre.kind # "symlink")

----------------------------------------------------------------------------
(* SpecDryRun: runs of pkglink-batch, with and without --dry-run, on       *)
(* configuration files that set dry_run in their defaults and targets      *)

\* targets without conflicts
DryTargets ==
    <<Context(EntryNames[1], ProjA, LinkA, GTag, FALSE),
      Context(EntryNames[2], ProjB, LinkB, GMain, FALSE),
      Context(EntryNames[3], ProjC, LinkC, PPlain, FALSE)>>

DryConfigs == {SubSeq(DryTargets, 1, n) : n \in (1..MaxTargets) \cap (1..Len(DryTargets))}

\* the dry_run options a configuration file may set
DrySettings(config) == [defaults : Options, targets : [1..Len(config) -> Options]]

InitDryRun ==
    /\ proj = [n \in {LinkA, LinkB, LinkC} |-> Absent]
    /\ locs = [l \in {"a"} |-> Absent]
    /\ cache = [k \in CacheKeys |-> NoContent]
    /\ tmp = <<>>
    /\ gen = 0
    /\ link = NoLink
    /\ inst = NoInst
    /\ run = NoRun
    /\ cls = NoCls
    /\ look = NoLook
    /\ batch \in {BatchRun(c, s, d) : c \in DryConfigs, s \in UNION {DrySettings(c0) : c0 \in DryConfigs}, d \in BOOLEAN}
    /\ Len(batch.settings.targets) = Len(batch.config)

SpecDryRun == InitDryRun /\ [][NextBatch]_vars

(* Claim about --dry-run in batch mode, checked under SpecDryRun *)

\* C28: when pkglink-batch is invoked with --dry-run, no entry of the batch
\* has its plan executed and no post-install setup runs, whatever dry_run
\* values the defaults and the targets of the configuration file set.
C28_DryRunExecutesNothing ==
    (batch.op = "pkglink_batch" /\ batch.dry_run) =>
        /\ \A k \in 1..Len(batch.entries) :
              ~batch.entries[k].executed /\ ~batch.entries[k].setup
        /\ \A n \in DOMAIN proj : proj[n] = Absent

----------------------------------------------------------------------------
(* Claims about --dry-run and the existing target, checked under SpecMain *)

\* the run invoked no installer and changed nothing on disk
NothingDone ==
    /\ ~run.ev.uvx
    /\ ~run.ev.uv
    /\ ~run.ev.reused
    /\ ~run.projChanged
    /\ ~run.locsChanged
    /\ ~run.cacheChanged
    /\ ~run.tmpChanged

\* C29: with --dry-run the pkglink CLI main invokes no installer and
\* creates, replaces or removes nothing in the project directory: after the
\* run the target is in the state it was in before.
C29_DryRunChangesNothing ==
    (run.op = "main" /\ run.args.dry_run) =>
        /\ NothingDone
        /\ run.status \in {"dry_run", "skipped", "error"}
        /\ run.status # "error" => Occupant(Now, run.symlink_name) = run.pre

\* C29 witness: pkglink --force --dry-run on a target that is an existing
\* directory ended as a dry run
C29_Witness ==
    /\ run.op = "main"
    /\ run.args.dry_run
    /\ run.args.force
    /\ run.pre = Dir("user")
    /\ run.status = "dry_run"
    /\ proj[run.symlink_name] = Dir("user")

----------------------------------------------------------------------------
(* Claim about the classification of an existing target, under SpecMain *)

\* the place main would link for these arguments in the filesystem w:
\* source_path / target_directory of a resolution that succeeds
IntendedSources(w, g, args, sup) ==
    {out.source : out \in
        {o \in {link_steps(w, g, args, determine_install_spec_and_module(args), env, sup, TRUE) :
                    env \in MainEnvs} : o.res.out.result.status = "ok"}}

\* the target is a symlink whose resolved path is the resolved intended source
AlreadyCorrect(w, g, args, name, sup) ==
    /\ Occupant(w, name).kind = "symlink"
    /\ PlaceExists(w, Cwd(name))
    /\ \E source \in IntendedSources(w, g, args, sup) :
          Resolve(w, Cwd(name), MaxHops) = Resolve(w, source, MaxHops)

\* C31: an existing target is skipped as already correct only when it is a
\* symlink whose resolved path equals the resolved intended source; a plain
\* file or directory, a symlink pointing elsewhere or a broken symlink is
\* never skipped, and with --force no target is skipped.
C31_SkippedOnlyWhenCorrect ==
    (run.op = "main" /\ run.status = "skipped") =>
        /\ ~run.args.force
        /\ run.pre.kind = "symlink"
        /\ AlreadyCorrect(Now, gen, run.args, run.symlink_name, run.sup)

----------------------------------------------------------------------------
(* pkglink/pkglinkx.py: pkglinkx_main and the .pkglink target directory *)

VOld == <<"v", "0", ".", "0", ".", "9">>
GOld == SourceSpec("github", Repo, VOld, Org)
GithubOld == GithubPrefix \o Org \o <<"/">> \o Repo \o <<"@">> \o VOld

\* hashlib.sha256(install_spec.encode()).hexdigest()[:8] of the install
\* strings that occur; the digest of github:org/repo@v0.0.9 holds digits only
spec_hash(install_spec) ==
    CASE install_spec = build_uv_install_spec(GTag).str ->
            <<"8", "a", "5", "3", "5", "1", "8", "3">>
      [] install_spec = build_uv_install_spec(GOld).str ->
            <<"5", "1", "3", "4", "8", "2", "4", "4">>
      [] install_spec = build_uv_install_spec(GMain).str ->
            <<"3", "7", "0", "8", "c", "b", "6", "1">>
      [] install_spec = build_uv_install_spec(PPlain).str ->
            <<"e", "c", "7", "2", "4", "2", "0", "d">>
      [] OTHER -> <<"0", "0", "0", "0", "0", "0", "0", "0">>

\* cache_dir.name.split('_')[-1]: the directory is named f'{spec.name}_{spec_hash}'
\* and a hexdigest holds no underscore
source_hash(dir) == spec_hash(dir.key[2])

\* str(install_spec.model_dump()): the text is decided by the four fields
model_dump_str(spec) == <<spec.source_type, spec.name, spec.org, spec.version>>

\* Path('.pkglink') / install_spec.name, and the two entries below it that
\* pkglinkx reads back: src/<package> and .pkglink-metadata.yaml
PkglinkBase == <<".", "p", "k", "g", "l", "i", "n", "k">>
TargetDir(name) == PkglinkBase \o <<"/">> \o name
PackageSymlink(name, package_name) == TargetDir(name) \o <<"/", "s", "r", "c", "/">> \o package_name
MetadataFile(name) ==
    TargetDir(name) \o <<"/", ".", "p", "k", "g", "l", "i", "n", "k", "-", "m", "e", "t", "a",
                         "d", "a", "t", "a", ".", "y", "a", "m", "l">>

\* the implicit resolver of YAML 1.1 as PyYAML applies it to a plain scalar
\* of digits: an integer unless a leading 0 is followed by a digit above 7
yaml_int(text) ==
    /\ Len(text) > 0
    /\ \A i \in 1..Len(text) : text[i] \in Digits
    /\ \/ Len(text) = 1
       \/ text[1] # "0"
       \/ \A i \in 2..Len(text) : text[i] \in {"0", "1", "2", "3", "4", "5", "6", "7"}

\* yaml.dump of a str that is written plain whatever it holds
yaml_dump_plain(text) == [style |-> "plain", text |-> text]

\* yaml.dump of a str: quoted when the plain text would resolve to another type
yaml_dump(text) == [style |-> IF yaml_int(text) THEN "quoted" ELSE "plain", text |-> text]

\* yaml.safe_load of a scalar: the value with its Python type
yaml_safe_load(scalar) ==
    [type |-> IF scalar.style = "plain" /\ yaml_int(scalar.text) THEN "int" ELSE "str",
     text |-> scalar.text]

\* a Python str
Str(text) == [type |-> "str", text |-> text]

\* the document of .pkglink-metadata.yaml: what create_pkglink_structure
\* dumps of PkglinkxMetadata, or a file that yaml.safe_load cannot read as a
\* mapping
Metadata(hash, install_spec) ==
    [readable |-> TRUE, source_hash |-> yaml_dump(hash), install_spec |-> install_spec]
Unreadable ==
    [readable |-> FALSE, source_hash |-> yaml_dump(<<>>), install_spec |-> <<>>]

\* check_version_changed(target_dir, current_spec, current_hash)
check_version_changed(w, name, current_spec, current_hash) ==
    IF ~EntryExists(w, MetadataFile(name))
    THEN TRUE
    ELSE IF ~w.proj[MetadataFile(name)].data.readable
    THEN TRUE
    ELSE \/ yaml_safe_load(w.proj[MetadataFile(name)].data.source_hash) # Str(current_hash)
         \/ w.proj[MetadataFile(name)].data.install_spec # current_spec

\* extract_package_info(cache_dir, package_name) finds a directory
\* f'{package_name}-*.dist-info' in the cache directory
extract_package_info(w, dir, package_name) ==
    \E i \in 1..Len(Listing(PlaceContent(w, dir))) :
        /\ StartsWith(Listing(PlaceContent(w, dir))[i].name, package_name \o <<"-">>)
        /\ EndsWith(Listing(PlaceContent(w, dir))[i].name, DistInfoSuffix)

\* Path.unlink(): removes a symlink or a file, fails on a directory
unlink(w, t) ==
    IF w.proj[t].kind = "dir"
    THEN Outcome(w, "OSIsADirectoryError", FALSE)
    ELSE Outcome([w EXCEPT !.proj[t] = Absent], "None", TRUE)

\* what a step of create_pkglink_structure left: the filesystem and the
\* exception raised ("none" when it went through)
Step(w, error) == [world |-> w, error |-> error]

\* create_pkglink_structure once the old link is out of the way: symlink_to,
\* then pyproject.toml and .pkglink-metadata.yaml are written
write_structure(link_out, name, hash, install_spec) ==
    IF link_out.result # "True"
    THEN Step(link_out.world, link_out.result)
    ELSE Step([link_out.world EXCEPT
                  !.proj[MetadataFile(name)] = File(Metadata(hash, install_spec))],
              "none")

\* create_pkglink_structure from "Remove existing symlink if it exists" on
replace_symlink(w, dir, package_name, name, hash, install_spec) ==
    IF EntryExists(w, PackageSymlink(name, package_name))
    THEN IF unlink(w, PackageSymlink(name, package_name)).result # "None"
         THEN Step(w, unlink(w, PackageSymlink(name, package_name)).result)
         ELSE write_structure(
                symlink_to(unlink(w, PackageSymlink(name, package_name)).world,
                           Sub(dir, package_name), PackageSymlink(name, package_name), TRUE),
                name, hash, install_spec)
    ELSE write_structure(
            symlink_to(w, Sub(dir, package_name), PackageSymlink(name, package_name), FALSE),
            name, hash, install_spec)

\* create_pkglink_structure(install_spec, cache_dir, package_name, target_dir)
create_pkglink_structure(w, spec, dir, package_name, name) ==
    IF ~extract_package_info(w, dir, package_name)
    THEN Step(w, "RuntimeError:No dist-info directory found")
    ELSE replace_symlink(w, dir, package_name, name, source_hash(dir), model_dump_str(spec))

\* how a run of pkglinkx_main ended: the filesystem it left, "ok" or "error",
\* the exception, what the installer did, the values of the run, what
\* check_version_changed returned and whether force_uvx_refresh was called
XOut(w, status, error, ev, spec, dir, needs_refresh, refreshed) ==
    [world |-> w, status |-> status, error |-> error, ev |-> ev, spec |-> spec,
     dir |-> dir, needs_refresh |-> needs_refresh, refreshed |-> refreshed]

\* pkglinkx_main after create_pkglink_structure: force_uvx_refresh runs uvx
\* with check=False, so only a missing executable raises
refresh_steps(c, i, d, needs_refresh, env) ==
    IF c.error # "none"
    THEN XOut(c.world, "error", c.error, i.ev, d.spec, i.result.place, needs_refresh, FALSE)
    ELSE IF needs_refresh /\ env.uvx = "FileNotFoundError"
    THEN XOut(c.world, "error", "FileNotFoundError", i.ev, d.spec, i.result.place,
              needs_refresh, TRUE)
    ELSE XOut(c.world, "ok", "none", i.ev, d.spec, i.result.place, needs_refresh,
              needs_refresh)

\* pkglinkx_main once install_with_uvx has returned i
installed(i, d, env) ==
    IF i.result.status # "ok"
    THEN XOut(i.world, "error", i.result.error, i.ev, d.spec, NoPlace, FALSE, FALSE)
    ELSE refresh_steps(
            create_pkglink_structure(i.world, d.spec, i.result.place, d.module, d.spec.name),
            i, d,
            check_version_changed(i.world, d.spec.name, model_dump_str(d.spec),
                                  source_hash(i.result.place)),
            env)

\* pkglinkx_main once determine_install_spec_and_module has returned d
parsed(w, g, d, env) ==
    IF ~d.ok
    THEN XOut(w, "error", d.error, NoEv, NoSpec, NoPlace, FALSE, FALSE)
    ELSE installed(x_install_with_uvx(w, g, d.spec, env), d, env)

\* pkglinkx_main(source_spec)
pkglinkx_main(w, g, source_spec, env) ==
    parsed(w, g,
           determine_install_spec_and_module(
               CliArgs(source_spec, <<".">>, None, FALSE, FALSE, None)),
           env)

\* what a later run knows of an earlier one
Past(source, status, refreshed) == [source |-> source, status |-> status, refreshed |-> refreshed]
NoPast == Past(<<>>, "none", FALSE)

NoXRun == [op |-> "none", source |-> <<>>, status |-> "none", error |-> "none",
           spec |-> NoSpec, dir |-> NoPlace,
           fetched |-> FALSE, reused |-> FALSE, refreshed |-> FALSE,
           preMeta |-> Absent, preLink |-> Absent, preLinkExists |-> FALSE,
           prev |-> NoPast]

\* the record of a run of pkglinkx_main that ended as out: fetched tells that
\* uvx installed the package and the cache directory was written
XRunRecord(source_spec, out) ==
    [op |-> "pkglinkx_main", source |-> source_spec, status |-> out.status,
     error |-> out.error, spec |-> out.spec, dir |-> out.dir,
     fetched |-> out.ev.uvx /\ out.dir # NoPlace,
     reused |-> out.ev.reused,
     refreshed |-> out.refreshed,
     preMeta |-> Occupant(Now, MetadataFile(out.spec.name)),
     preLink |-> Occupant(Now, PackageSymlink(out.spec.name, out.spec.name)),
     preLinkExists |-> PlaceExists(Now, Cwd(PackageSymlink(out.spec.name, out.spec.name))),
     prev |-> Past(run.source, run.status, run.refreshed)]

\* one run of pkglinkx in the project directory
PkglinkxMain(source_spec, env) ==
    \E out \in {pkglinkx_main(Now, gen, source_spec, env)} :
        /\ proj' = out.world.proj
        /\ cache' = out.world.cache
        /\ run' = XRunRecord(source_spec, out)
        /\ UNCHANGED <<locs, tmp, gen, link, inst, cls, look, batch>>

\* the user empties a directory of ~/.cache/pkglink
CleanCache(k) ==
    /\ cache[k].exists
    /\ cache' = [cache EXCEPT ![k] = NoContent]
    /\ UNCHANGED <<proj, locs, tmp, gen, link, inst, run, cls, look, batch>>

----------------------------------------------------------------------------
(* SpecPkglinkx: runs of pkglinkx in one project directory *)

XSources == {GithubTag, GithubOld, GithubMain}
XSpecs == {GTag, GOld, GMain}
XKeys == {cache_dir(spec) : spec \in XSpecs}

InitPkglinkx ==
    /\ proj \in {f \in [{PackageSymlink(Repo, Repo), MetadataFile(Repo)} ->
                          {Absent, Dir("user"), File(Unreadable)}] :
                    /\ f[PackageSymlink(Repo, Repo)] \in {Absent, Dir("user")}
                    /\ f[MetadataFile(Repo)] \in {Absent, File(Unreadable)}}
    /\ locs = [l \in {"a"} |-> Absent]
    /\ cache = [k \in XKeys |-> NoContent]
    /\ tmp = <<>>
    /\ gen = 0
    /\ link = NoLink
    /\ inst = NoInst
    /\ run = NoXRun
    /\ cls = NoCls
    /\ look = NoLook
    /\ batch = NoBatch

NextPkglinkx ==
    \/ \E source_spec \in XSources, env \in UvxEnvs : PkglinkxMain(source_spec, env)
    \/ \E k \in XKeys : CleanCache(k)
    \/ Publish

SpecPkglinkx == InitPkglinkx /\ [][NextPkglinkx]_vars

(* Claims about pkglinkx_main, checked under SpecPkglinkx *)

\* the metadata the run found was readable and recorded the hash and the
\* install spec of the run
RecordedCurrent ==
    /\ run.preMeta.kind = "file"
    /\ run.preMeta.data.readable
    /\ run.preMeta.data.source_hash.text = source_hash(run.dir)
    /\ run.preMeta.data.install_spec = model_dump_str(run.spec)

\* the metadata file records the hash and the install spec of the run
RecordsCurrent ==
    /\ proj[MetadataFile(run.spec.name)].kind = "file"
    /\ proj[MetadataFile(run.spec.name)].data.readable
    /\ proj[MetadataFile(run.spec.name)].data.source_hash.text
          = source_hash(run.dir)
    /\ proj[MetadataFile(run.spec.name)].data.install_spec
          = model_dump_str(run.spec)

\* C32: a successful run of pkglinkx_main forces a uvx refresh exactly when
\* the target directory had no readable metadata or the recorded source_hash
\* or install_spec differed from the values of the run; after it the metadata
\* records the values of the run, so a run that repeats the spec of the
\* successful run before it does not refresh, and a run that switches to
\* another version does.
C32_RefreshExactlyOnChange ==
    (run.op = "pkglinkx_main" /\ run.status = "ok") =>
        /\ run.refreshed <=> ~RecordedCurrent
        /\ RecordsCurrent
        /\ run.prev.status = "ok" => (run.refreshed <=> run.prev.source # run.source)

\* C32 witness: with v1.2.3 in the cache from an earlier run, v0.0.9 was
\* linked and refreshed, and the run after it switched back to v1.2.3 and
\* refreshed again
C32_Witness ==
    /\ run.op = "pkglinkx_main"
    /\ run.status = "ok"
    /\ run.source = GithubTag
    /\ run.refreshed
    /\ run.reused
    /\ run.prev = Past(GithubOld, "ok", TRUE)

\* C37: a run of pkglinkx_main that re-fetched the package into the cache
\* directory (cache miss, or refresh of a mutable spec) also forced the uvx
\* refresh.
C37_RefetchForcesRefresh ==
    (run.op = "pkglinkx_main" /\ run.status = "ok" /\ run.fetched) => run.refreshed

\* the run reached create_pkglink_structure with a cache directory that holds
\* the dist-info directory of the package
StructureCalled ==
    /\ run.op = "pkglinkx_main"
    /\ run.dir # NoPlace
    /\ run.error # "RuntimeError:No dist-info directory found"

\* C38: whatever occupied target_dir/src/<package> before (a valid symlink,
\* a symlink whose cache directory has since been deleted, or nothing),
\* create_pkglink_structure succeeds and ends with target_dir/src/<package>
\* pointing at the current cache_dir/<package> and the metadata written.
C38_StructureRerunnable ==
    (StructureCalled /\ run.preLink.kind \in {"absent", "symlink"}) =>
        /\ run.error \in {"none", "FileNotFoundError"}
        /\ proj[PackageSymlink(run.spec.name, run.spec.name)]
              = Symlink(Sub(run.dir, run.spec.name))
        /\ RecordsCurrent

----------------------------------------------------------------------------
(* SpecRace: two processes calling install_with_uvx on one cache root.     *)
(* Each call is taken statement by statement; inst holds, for every        *)
(* process, the call it is in.                                             *)

Procs == {1, 2}
RaceSpecs == {GTag, GMain}
RaceFns == {"pkglinkx.install_with_uvx", "installation.install_with_uvx"}

\* a cache directory that shutil.copytree has created and not yet filled
Partial(spec, g) == Content(spec.name, Upstream(spec, g), "partial")

\* the call a process is in: the function, the spec, the statement it is at
\* (pc), what it returned or raised, the state of the cache directory when it
\* returned (seen), whether another process was inside a call on the same
\* cache directory during the call (raced) and whether another process wrote
\* the directory during its copytree (disturbed)
Call(fn, spec, pc, result, seen, raced, disturbed) ==
    [fn |-> fn, spec |-> spec, pc |-> pc, result |-> result, seen |-> seen,
     raced |-> raced, disturbed |-> disturbed]
Idle == Call("none", GTag, "idle", Err("none"), NoContent, FALSE, FALSE)

\* the call of p moves to statement pc
Goto(p, pc) == [inst EXCEPT ![p].pc = pc]

\* the call of p returns cache_dir or raises
Returns(calls, p, result) ==
    [calls EXCEPT ![p].pc = "done", ![p].result = result,
                  ![p].seen = cache'[cache_dir(calls[p].spec)]]

\* the processes that copy into the cache directory which p has just written
\* are disturbed
Writes(calls, p, wrote) ==
    [q \in Procs |->
        IF q # p /\ wrote /\ calls[q].pc = "copying" /\ calls[q].spec = calls[p].spec
        THEN [calls[q] EXCEPT !.disturbed = TRUE]
        ELSE calls[q]]

\* the processes inside a call on the cache directory of spec
Inside(spec) == {q \in Procs : inst[q].pc \notin {"idle", "done"} /\ inst[q].spec = spec}

RaceFrame == UNCHANGED <<proj, locs, tmp, gen, link, run, cls, look, batch>>

\* a process enters install_with_uvx(spec)
RaceCall(p, fn, spec) ==
    /\ inst[p].pc \in {"idle", "done"}
    /\ inst' = [q \in Procs |->
                    IF q = p
                    THEN Call(fn, spec, "exists", Err("none"), NoContent,
                              Inside(spec) \ {p} # {}, FALSE)
                    ELSE IF q \in Inside(spec)
                    THEN [inst[q] EXCEPT !.raced = TRUE]
                    ELSE inst[q]]
    /\ UNCHANGED cache
    /\ RaceFrame

\* pkglinkx.py:385 / installation.py:260: the cached directory is returned
RaceExists(p) ==
    /\ inst[p].pc = "exists"
    /\ UNCHANGED cache
    /\ inst' = IF inst[p].fn = "installation.install_with_uvx"
               THEN IF cache[cache_dir(inst[p].spec)].exists
                    THEN Returns(inst, p, Ok(CacheDir(cache_dir(inst[p].spec))))
                    ELSE Goto(p, "uvx")
               ELSE IF cache[cache_dir(inst[p].spec)].exists
                       /\ ~should_refresh_cache(Now, inst[p].spec)
                    THEN Returns(inst, p, Ok(CacheDir(cache_dir(inst[p].spec))))
                    ELSE Goto(p, "stale")
    /\ RaceFrame

\* pkglinkx.py:394: if cache_dir.exists()
RaceStale(p) ==
    /\ inst[p].pc = "stale"
    /\ UNCHANGED cache
    /\ inst' = IF cache[cache_dir(inst[p].spec)].exists THEN Goto(p, "rmtree") ELSE Goto(p, "uvx")
    /\ RaceFrame

\* rmtree that waits until no other process is inside a call on the directory
RaceRmtreeLocked(p) ==
    /\ \A q \in Procs \ {p} :
          inst[q].pc \in {"idle", "done"} \/ inst[q].spec # inst[p].spec
    /\ inst[p].pc = "rmtree"
    /\ cache' = [cache EXCEPT ![cache_dir(inst[p].spec)] = NoContent]
    /\ inst' = Writes(Goto(p, "uvx"), p, cache[cache_dir(inst[p].spec)].exists)
    /\ RaceFrame

\* pkglinkx.py:400-402: shutil.rmtree(cache_dir), OSError suppressed
RaceRmtree(p) ==
    /\ inst[p].pc = "rmtree"
    /\ cache' = [cache EXCEPT ![cache_dir(inst[p].spec)] = NoContent]
    /\ inst' = Writes(Goto(p, "uvx"), p, cache[cache_dir(inst[p].spec)].exists)
    /\ RaceFrame

\* pkglinkx.py:437 / installation.py:274: the uvx command
RaceUvx(p) ==
    /\ inst[p].pc = "uvx"
    /\ UNCHANGED cache
    /\ inst' = Goto(p, "copytree")
    /\ RaceFrame

\* pkglinkx.py:453 / installation.py:286: shutil.copytree begins with
\* os.makedirs(cache_dir), which raises FileExistsError on an existing directory
RaceCopytree(p) ==
    /\ inst[p].pc = "copytree"
    /\ IF cache[cache_dir(inst[p].spec)].exists
       THEN /\ UNCHANGED cache
            /\ inst' = Returns(inst, p, Err("FileExistsError"))
       ELSE /\ cache' = [cache EXCEPT ![cache_dir(inst[p].spec)] = Partial(inst[p].spec, gen)]
            /\ inst' = Writes(Goto(p, "copying"), p, TRUE)
    /\ RaceFrame

\* shutil.copytree copies the entries: into a directory that was removed
\* meanwhile it fails; into one that another process created meanwhile it
\* fails or goes through, depending on the entries already there
RaceCopying(p) ==
    /\ inst[p].pc = "copying"
    /\ \/ /\ ~cache[cache_dir(inst[p].spec)].exists
          /\ UNCHANGED cache
          /\ inst' = Returns(inst, p, Err("FileNotFoundError"))
       \/ /\ cache[cache_dir(inst[p].spec)].exists
          /\ inst[p].disturbed
          /\ UNCHANGED cache
          /\ inst' = Returns(inst, p, Err("FileExistsError"))
       \/ /\ cache[cache_dir(inst[p].spec)].exists
          /\ cache' = [cache EXCEPT ![cache_dir(inst[p].spec)] = Fetched(inst[p].spec, gen)]
          /\ inst' = Writes(Returns(inst, p, Ok(CacheDir(cache_dir(inst[p].spec)))), p, TRUE)
    /\ RaceFrame

\* the next statement of the call of p
RaceStep(p) ==
    \/ RaceExists(p)
    \/ RaceStale(p)
    \/ RaceRmtree(p)
    \/ RaceUvx(p)
    \/ RaceCopytree(p)
    \/ RaceCopying(p)

InitRace ==
    /\ proj = <<>>
    /\ locs = <<>>
    /\ cache \in [{cache_dir(spec) : spec \in RaceSpecs} -> {NoContent}]
    /\ tmp = <<>>
    /\ gen = 0
    /\ link = NoLink
    /\ inst = [p \in Procs |-> Idle]
    /\ run = NoRun
    /\ cls = NoCls
    /\ look = NoLook
    /\ batch = NoBatch

NextRace ==
    \/ \E p \in Procs, fn \in RaceFns, spec \in RaceSpecs : RaceCall(p, fn, spec)
    \/ \E p \in Procs : RaceStep(p)

SpecRace == InitRace /\ [][NextRace]_vars

(* Claim about concurrent invocations, checked under SpecRace *)

\* the call of p is in progress
InCall(p) == inst[p].pc \notin {"idle", "done"}

\* the call of p ended in a failure, or returned a cache directory that was
\* missing or only partially copied when it returned
RaceDamage(p) ==
    /\ inst[p].pc = "done"
    /\ \/ inst[p].result.status = "error"
       \/ ~inst[p].seen.exists
       \/ inst[p].seen.layout = "partial"

\* C33: invocations that share the cache root are not coordinated: no
\* statement of a call ever waits for the other process, whatever statement
\* that process is at; and a call fails, or returns a cache directory that
\* is missing or partially copied, only when another process was inside a
\* call on the same cache directory during the call.
C33_UncoordinatedRace ==
    \A p \in Procs :
        /\ InCall(p) => ENABLED RaceStep(p)
        /\ RaceDamage(p) => inst[p].raced

\* C33 witness: while process 2 was copying github:org/repo@main into the
\* cache directory, process 1 found the directory and returned it, partially
\* copied
C33_Witness ==
    /\ inst[1].pc = "done"
    /\ inst[1].fn = "installation.install_with_uvx"
    /\ inst[1].spec = GMain
    /\ inst[1].result = Ok(CacheDir(cache_dir(GMain)))
    /\ inst[1].seen.layout = "partial"
    /\ inst[2].pc = "copying"
    /\ inst[2].spec = GMain

----------------------------------------------------------------------------
(* SpecLocal: parse_source followed by resolve_source_path on local paths  *)

DirA == <<"a">>
DirB == <<"b">>

\* ./mydir, ./mydir/resources, /a and ~/b
LocalSources ==
    {LocalMyDir,
     LocalMyDir \o <<"/">> \o Resources,
     <<"/">> \o DirA,
     <<"~", "/">> \o DirB}

\* the place an absolute path denotes: the root directory holds a, the home
\* directory of the user holds b; both lie outside the working directory
AbsolutePlace(parts) ==
    CASE parts = <<DirA>> -> Loc("a")
      [] parts = Home \o <<DirB>> -> Loc("b")
      [] OTHER -> NoPlace

\* the place a path string denotes after ~ expansion: a path that starts
\* with ./ is taken from the working directory, any other from the root
Denotes(source) ==
    IF StartsWith(source, <<".", "/">>)
    THEN [Cwd(Components(source)[1]) EXCEPT !.sub = Tail(Components(source))]
    ELSE AbsolutePlace(expanduser(source).parts)

\* resolve_source_path(parse_source(source)) for a source that parses
resolve_parsed(w, g, d, env) ==
    IF ~d.ok
    THEN InstOut(w, Err(d.error), NoEv)
    ELSE resolve_source_path(w, g, d.spec, None, env)

NoLocal == [op |-> "none", source |-> <<>>, type |-> "none", result |-> Err("none"),
            denotes |-> NoPlace, exists |-> FALSE]

\* a source is parsed and resolved in the working directory
ResolveLocal(source, env) ==
    \E out \in {resolve_parsed(Now, gen, parse_source(source), env)} :
        /\ inst' = [op |-> "resolve_local", source |-> source,
                    type |-> parse_source(source).spec.source_type,
                    result |-> out.result,
                    denotes |-> Resolve(Now, Denotes(source), MaxHops),
                    exists |-> PlaceExists(Now, Denotes(source))]
        /\ cache' = out.world.cache
        /\ tmp' = out.world.tmp
        /\ UNCHANGED <<proj, locs, gen, link, run, cls, look, batch>>

InitLocal ==
    /\ proj \in [{MyDir, Resources, DirA, DirB} -> {Absent, Dir("src")}]
    /\ locs \in {f \in [Locations -> {Absent, Dir("a"), Dir("b")}] :
                    \A l \in Locations : f[l] \in {Absent, Dir(l)}}
    /\ cache = <<>>
    /\ tmp = <<>>
    /\ gen = 0
    /\ link = NoLink
    /\ inst = NoLocal
    /\ run = NoRun
    /\ cls = NoCls
    /\ look = NoLook
    /\ batch = NoBatch

NextLocal ==
    \E source \in LocalSources, env \in {e \in ResolveEnvs : e.uvx = "ok" /\ e.uv = "ok"} :
        ResolveLocal(source, env)

SpecLocal == InitLocal /\ [][NextLocal]_vars

(* Claim about local sources, checked under SpecLocal *)

\* C34: for every source that parse_source classifies as local,
\* resolve_source_path returns the location the source denotes after ~
\* expansion when that location exists, and fails when it does not; an
\* absolute path outside the working directory resolves to itself, not to an
\* entry of the working directory that has the same name.
C34_LocalDenoted ==
    (inst.op = "resolve_local" /\ inst.type = "local") =>
        /\ inst.exists => inst.result = Ok(inst.denotes)
        /\ ~inst.exists => inst.result.status = "error"

(* Hidden and metadata directories, checked under SpecRoot *)

\* C35: find_package_root never returns a hidden directory (a name starting
\* with ".") or a ".dist-info" directory unless its name is exactly
\* expected_name, whichever strategy returns.
C35_NoHiddenOrMetadata ==
    (Looked /\ look.index # 0 /\ look.name # look.expected) =>
        /\ ~StartsWithDot(look.name)
        /\ ~EndsWith(look.name, DistInfoSuffix)

(* The symlink name within one run, checked under SpecMain *)

\* C36: within one invocation of pkglink main the symlink name of the
\* pre-check of the existing target, the symlink name the dry run logs and
\* the name of the link that is created are the same, also with --from and
\* no --symlink-name.
C36_OneSymlinkName ==
    /\ (run.op = "main" /\ run.status = "dry_run") => run.logged_name = run.symlink_name
    /\ (run.op = "main" /\ run.status \in {"linked", "copied"}) =>
          /\ run.symlink_name = symlink_name_of(run.args,
                                    determine_install_spec_and_module(run.args).spec)
          /\ Occupant(Now, run.symlink_name) # Absent

(* The destination of a removed link, checked under SpecLink *)

\* the call that just ended was remove_target or create_symlink(force=True)
\* on a target that was a symlink
RemovingCall(l) ==
    /\ l.op \in {"create_symlink", "remove_target"}
    /\ l.op = "create_symlink" => l.force
    /\ l.pre.kind = "symlink"

\* C39: removing a target that is a symlink removes only the link itself:
\* no step of remove_target or of create_symlink(force=True) on a symlink
\* deletes or modifies the directory or file the link points to, and a step
\* that removes the link leaves every location outside the project directory
\* and the cache as they were.
C39_RemovesOnlyLink ==
    [][RemovingCall(link') =>
          /\ locs[link'.pre.to.id] # Absent => locs'[link'.pre.to.id] = locs[link'.pre.to.id]
          /\ link'.removed => (locs' = locs /\ cache' = cache)]_vars

\* C39 witness: create_symlink(force=True) replaced a symlink to the directory
\* a by a symlink to b, and a is still there
C39_Witness ==
    /\ link.op = "create_symlink"
    /\ link.force
    /\ link.removed
    /\ link.pre = Symlink(Loc("a"))
    /\ link.source = Loc("b")
    /\ ResolvesTo(Now, link.target, Loc("b"))
    /\ locs["a"] = Dir("a")

(* A failed installer call, checked under SpecCache *)

\* C40: a failed installer invocation leaves the cache unchanged: every cache
\* directory that existed before a call of install_with_uvx that ends in an
\* error still exists with its previous content afterwards, for immutable and
\* for mutable specs.
C40_FailureKeepsCache ==
    (inst.op \in UvxOps /\ inst.result.status = "error") =>
        /\ ~inst.cacheChanged
        /\ inst.pre.exists => Cached(Now, inst.spec) = inst.pre

====
